---- MODULE Spec2Model ----
(***************************************************************************)
(* Verification model of the MongoDB replica-set tooling:                  *)
(*   scripts/cluster_manager.py   (install, init-replica, create-admin,    *)
(*                                 enable-auth)                            *)
(*   web/app.py                   (POST /api/ssh)                          *)
(*   load_testing.py              (MongoDBLoadTester workers)              *)
(*   scripts/generate_dummy_data.py (generate_data)                        *)
(*   mongodb-cluster/load-testing/load_test_runner.py (MongoLoadTester)    *)
(* Each program is one specification over its own group of variables; the  *)
(* other groups stay at their initial value.                               *)
(*                                                                         *)
(* Conventions.  cfg.nodes is the sequence 1..NumNodes in accounts.json    *)
(* order, node names being unique, so the dictionaries keyed by node name  *)
(* iterate in that order.  A call into paramiko or pymongo either returns  *)
(* or raises; run_ssh_command returns the remote exit status and no caller *)
(* inspects it, so a remote command is recorded as issued.                 *)
(***************************************************************************)
EXTENDS Integers, Sequences, FiniteSets, TLC

\* ---------------------------------------------------------------- bounds
NumNodes == 2

Nodes == 1..NumNodes

\* ------------------------------------------------- cluster_manager: data
NoKey == "nokey"
OldKey == "oldkey"
Keys == {"k1", "k2"}

DbPath == "/var/lib/mongo"
LogPath == "/var/log/mongodb/mongod.log"
ReplSetName == "rs0"
KeyFilePath == "/etc/mongod.key"
NoPath == ""

RetryLimit == 20

\* build_mongod_conf: the lines of mongod.conf, each line a tuple of its
\* fixed text and its interpolated values.
build_mongod_confElifOnly(db_path, log_path, repl_set_name, key_file_path, authorization) ==
    LET base == << <<"storage:">>,
                   <<"  dbPath: ", db_path>>,
                   <<"  journal:">>,
                   <<"    enabled: true">>,
                   <<"systemLog:">>,
                   <<"  destination: file">>,
                   <<"  path: ", log_path>>,
                   <<"  logAppend: true">>,
                   <<"processManagement:">>,
                   <<"  fork: false">>,
                   <<"net:">>,
                   <<"  bindIp: 0.0.0.0">>,
                   <<"  port: 27017">>,
                   <<"replication:">>,
                   <<"  replSetName: ", repl_set_name>> >>
    IN  IF key_file_path # NoPath
        THEN base \o << <<"security:">>, <<"  keyFile: ", key_file_path>> >>
        ELSE IF authorization
             THEN base \o << <<"security:">>, <<"  authorization: enabled">> >>
             ELSE base
build_mongod_conf(db_path, log_path, repl_set_name, key_file_path, authorization) ==
    LET base == << <<"storage:">>,
                   <<"  dbPath: ", db_path>>,
                   <<"  journal:">>,
                   <<"    enabled: true">>,
                   <<"systemLog:">>,
                   <<"  destination: file">>,
                   <<"  path: ", log_path>>,
                   <<"  logAppend: true">>,
                   <<"processManagement:">>,
                   <<"  fork: false">>,
                   <<"net:">>,
                   <<"  bindIp: 0.0.0.0">>,
                   <<"  port: 27017">>,
                   <<"replication:">>,
                   <<"  replSetName: ", repl_set_name>> >>
    IN  IF key_file_path # NoPath
        THEN base \o << <<"security:">>, <<"  keyFile: ", key_file_path>> >>
                  \o (IF authorization THEN << <<"  authorization: enabled">> >> ELSE << >>)
        ELSE IF authorization
             THEN base \o << <<"security:">>, <<"  authorization: enabled">> >>
             ELSE base

HasLine(conf, line) == \E k \in 1..Len(conf) : conf[k] = line

\* pat in msg, for texts given word by word
Contains(msg, pat) ==
    \E k \in 1..(Len(msg) - Len(pat) + 1) : SubSeq(msg, k, k + Len(pat) - 1) = pat

NoConf == << >>

\* ------------------------------------------------ cmd_install: variables
VARIABLES
    ipc,          \* position of cmd_install
    inode,        \* node the current loop is at
    hasMongod,    \* node -> `mongod --version` prints a version
    probes,       \* node -> number of `mongod --version` probes issued
    probeOut,     \* node -> (code, out, err) of the probe, NoOutput before it
    codenameCmds, \* node -> number of UBUNTU_CODENAME commands issued
    aptCmds,      \* node -> number of repository + apt-get commands issued
    clients,      \* nodes with an open SSH client (dict clients)
    keyBytes,     \* key_bytes of distribute_keyfile
    keyGens,      \* number of calls of random_keyfile_bytes
    tmpKey,       \* node -> content of /tmp/mongod.key
    keyFile,      \* node -> content of cfg.key_file_path
    tmpConf,      \* node -> content of /tmp/mongod.conf
    confFile,     \* node -> content of /etc/mongod.conf
    restarts,     \* node -> number of `systemctl restart mongod` issued
    attempts,     \* node -> attempts of wait_for_mongo made
    waitOk,       \* node -> wait_for_mongo returned
    raisedAt,     \* the step whose exception left cmd_install, "" if none
    printed       \* "All nodes prepared and mongod running." printed

instVars == <<ipc, inode, hasMongod, probes, probeOut, codenameCmds, aptCmds, clients, keyBytes,
              keyGens, tmpKey, keyFile, tmpConf, confFile, restarts, attempts, waitOk,
              raisedAt, printed>>

\* ------------------------- cluster_manager.py: commands after install
VARIABLES
    role,          \* node -> role in accounts.json
    apc,           \* position of the running command, "idle" between commands
    acmd,          \* the command of the current or last run
    runs,          \* number of commands started
    aResult,       \* "returned" or "raised" once the run ended, "" before
    aErr,          \* the exception that ended the run
    rsInitiated,   \* the replica set has been initiated
    authOn,        \* node -> the running mongod enforces authorization
    aTmpConf,      \* node -> content of /tmp/mongod.conf
    aConf,         \* node -> content of /etc/mongod.conf
    adminUser,     \* the cluster admin user exists
    adminVersion,  \* number of times the admin user was created or changed
    versionBefore, \* adminVersion when the run started
    answer,        \* what the server answered to add_user in this run
    statusOk,      \* the first replSetGetStatus of this run answered ok == 1
    initiateSent,  \* replSetInitiate commands sent in this run
    sentToInitiated, \* replSetInitiate commands sent to an initiated set, all runs
    polls,         \* polls of replSetGetStatus made after replSetInitiate
    primarySeen,   \* a poll showed a member in state PRIMARY
    eaClients,     \* nodes with an open SSH client of cmd_enable_auth
    eaNode,        \* node the loop of the running command is at
    rewritten,     \* node -> mongod.conf moved into place in this run
    restarted      \* node -> mongod restarted in this run

admServer == <<rsInitiated, authOn, aTmpConf, aConf, adminUser, adminVersion>>
admRun == <<versionBefore, answer, statusOk, initiateSent, sentToInitiated, polls,
            primarySeen, eaClients, eaNode, rewritten, restarted>>
admVars == <<role, apc, acmd, runs, aResult, aErr, admServer, admRun>>

\* ------------------------------------------- web/app.py: POST /api/ssh
VARIABLES
    sConfig,      \* accounts.json as load_config sees it: the set of node names, or Broken
    sSeen,        \* sConfig when the last POST /api/ssh was handled
    sBody,        \* the JSON body of the last POST /api/ssh
    sStatus,      \* status code of the last response, 0 before the first
    sOpened,      \* the last request opened an SSH connection
    sExec         \* command strings the last request executed on the node

sshVars == <<sConfig, sSeen, sBody, sStatus, sOpened, sExec>>

\* ------------------------------------ load_testing.py: MongoDBLoadTester
VARIABLES
    lRole,        \* node -> role in the configuration
    lPc,          \* "connect", "run" or "failed"
    lNode,        \* node connect_to_nodes is at
    lClients,     \* nodes in self.clients
    lIssued       \* <<kind, node>> of the operations the workers issued

loadVars == <<lRole, lPc, lNode, lClients, lIssued>>

\* --------------------------- scripts/generate_dummy_data.py: generate_data
VARIABLES
    gPc,          \* position of generate_data
    gCount,       \* companies_count
    gEmp,         \* employees_per_company
    gInitial,     \* db.companies when generate_data was called
    gCompanies,   \* db.companies
    gExisting,    \* existing = db.companies.count_documents({})
    gIdx,         \* idx of the loop over range(start_index, companies_count)
    gEmployees    \* number of documents in db.employees

genVars == <<gPc, gCount, gEmp, gInitial, gCompanies, gExisting, gIdx, gEmployees>>

\* --------------------------------- load_test_runner.py: MongoLoadTester
VARIABLES
    rPc,          \* "run", "cleanup", "cleaned", "cleanup_failed" or "done" (--no-cleanup)
    rInitial,     \* the database before the load test
    rDb,          \* collection name -> documents
    rOpsLeft,     \* worker thread -> iterations left of its loop
    rLast,        \* <<client, collection, operation>> of the last database operation
    rClean        \* index of cleanup_test_data in test_collections

runVars == <<rPc, rInitial, rDb, rOpsLeft, rLast, rClean>>

\* ------------------------------ web_dashboard.py: MongoDBDashboard monitoring
VARIABLES
    monitoring_active,  \* self.monitoring_active
    monitoring_thread,  \* self.monitoring_thread: a thread, or NoThread for None
    replication_lag,    \* monitoring_data["replication_lag"]: each measurement by its ordinal
    alerts,             \* monitoring_data["alerts"]: each alert by its ordinal
    measured,           \* number of measurements appended so far
    alerted,            \* number of alerts added so far
    updates,            \* number of monitoring_update events emitted
    iterations,         \* number of loop bodies executed
    tpc,                \* thread -> position of _monitoring_loop
    hpc,                \* request handler -> position of start_monitoring / stop_monitoring
    hThread,            \* request handler -> the thread its join waits for
    hOverlap,           \* request handler -> a start_monitoring ran while its stop_monitoring ran
    lastStop,           \* the moment the last stop_monitoring returned
    lag_data,           \* argument lag_data of a call of _check_alerts
    node_status,        \* argument node_status of a call of _check_alerts
    new_alerts          \* the local list alerts of that call, as emitted

monVars == <<monitoring_active, monitoring_thread, replication_lag, alerts, measured, alerted,
             updates, iterations, tpc, hpc, hThread, hOverlap, lastStop,
             lag_data, node_status, new_alerts>>

\* ------------------------------ web_dashboard.py: MongoDBDashboard.execute_query
VARIABLES
    qClients,     \* self.clients: node ip -> client_info
    qQuery,       \* argument query of the last call
    qNodeIp,      \* argument node_ip of the last call
    qResp,        \* how the last call ended
    qCalls        \* number of requests answered

qryVars == <<qClients, qQuery, qNodeIp, qResp, qCalls>>

\* ------------------------------------------------ loadtest/locustfile.py
VARIABLES
    weights,      \* user class -> the weight Locust read from the class
    spawned       \* user class -> number of users Locust has spawned

locVars == <<weights, spawned>>

VARIABLES
    stop_evt,     \* threading.Event of main: set or not
    counts,       \* Counter.counts: key -> value
    lock,         \* Counter.lock: the thread holding it, NoHolder when free
    mpc,          \* position of main
    wpc,          \* worker -> position
    wKey,         \* worker -> key of the inc it is in, else its own kind
    wLocal,       \* worker -> value self.counts.get(key, 0) gave its inc, else 0
    applied,      \* key -> total of the increments whose inc has written
    last_counts,  \* main: the snapshot before the latest
    snap,         \* main: the latest snapshot
    cfgAnalytics, \* the configuration has a node with role analytics
    cause         \* how main left the reporting loop

toolVars == <<stop_evt, counts, lock, mpc, wpc, wKey, wLocal, applied, last_counts, snap,
              cfgAnalytics, cause>>

vars == <<instVars, admVars, sshVars, loadVars, genVars, runVars, monVars, qryVars, locVars, toolVars>>

instOthers == <<admVars, sshVars, loadVars, genVars, runVars, monVars, qryVars, locVars, toolVars>>
admOthers == <<instVars, sshVars, loadVars, genVars, runVars, monVars, qryVars, locVars, toolVars>>
sshOthers == <<instVars, admVars, loadVars, genVars, runVars, monVars, qryVars, locVars, toolVars>>
loadOthers == <<instVars, admVars, sshVars, genVars, runVars, monVars, qryVars, locVars, toolVars>>
genOthers == <<instVars, admVars, sshVars, loadVars, runVars, monVars, qryVars, locVars, toolVars>>
runOthers == <<instVars, admVars, sshVars, loadVars, genVars, monVars, qryVars, locVars, toolVars>>
monOthers == <<instVars, admVars, sshVars, loadVars, genVars, runVars, qryVars, locVars, toolVars>>
qryOthers == <<instVars, admVars, sshVars, loadVars, genVars, runVars, monVars, locVars, toolVars>>
locOthers == <<instVars, admVars, sshVars, loadVars, genVars, runVars, monVars, qryVars, toolVars>>
toolOthers == <<instVars, admVars, sshVars, loadVars, genVars, runVars, monVars, qryVars, locVars>>

\* ------------------------------------------------- cmd_install: actions
\* (code, out, err) of run_ssh_command, out and err word by word
Output(code, out, err) == [code |-> code, out |-> out, err |-> err]
NoOutput == Output(-1, << >>, << >>)

InstInit ==
    /\ ipc = "connect"
    /\ inode = 1
    /\ hasMongod \in [Nodes -> BOOLEAN]
    /\ probes = [n \in Nodes |-> 0]
    /\ probeOut = [n \in Nodes |-> NoOutput]
    /\ codenameCmds = [n \in Nodes |-> 0]
    /\ aptCmds = [n \in Nodes |-> 0]
    /\ clients = {}
    /\ keyBytes = NoKey
    /\ keyGens = 0
    /\ tmpKey = [n \in Nodes |-> NoKey]
    /\ keyFile \in [Nodes -> {NoKey, OldKey}]
    /\ tmpConf = [n \in Nodes |-> NoConf]
    /\ confFile = [n \in Nodes |-> NoConf]
    /\ restarts = [n \in Nodes |-> 0]
    /\ attempts = [n \in Nodes |-> 0]
    /\ waitOk = [n \in Nodes |-> FALSE]
    /\ raisedAt = ""
    /\ printed = FALSE

\* An exception leaves the try block: the finally clause closes every client.
InstRaise(step) ==
    /\ ipc' = "raised"
    /\ raisedAt' = step
    /\ clients' = {}

\* make_ssh_client(n); clients[n.name] = client
InstConnect ==
    /\ ipc = "connect"
    /\ \/ /\ clients' = clients \cup {inode}
          /\ ipc' = "probe"
          /\ UNCHANGED <<raisedAt>>
       \/ InstRaise("connect")
    /\ UNCHANGED <<inode, hasMongod, probes, codenameCmds, aptCmds, keyBytes, keyGens,
                   tmpKey, keyFile, tmpConf, confFile, restarts, attempts, waitOk, printed>>
    /\ UNCHANGED probeOut
    /\ UNCHANGED instOthers

\* What `mongod --version || true` gives on a node with mongod and on one
\* without: the shell's exit status is 0 either way.
ProbeOutput(has) ==
    IF has THEN Output(0, <<"db", "version", "v7.0.5", "\n", "Build", "Info:", "{...}", "\n">>, << >>)
           ELSE Output(0, << >>, <<"bash:", "mongod:", "command", "not", "found", "\n">>)

\* out.strip() != ""
StripNotEmpty(out) == \E k \in 1..Len(out) : out[k] # "\n"

\* "db version" in out or "db version" in err or code == 0 and out.strip() != ""
AlreadyAvailableNever(r) == FALSE
AlreadyAvailable(r) ==
    \/ Contains(r.out, <<"db", "version">>)
    \/ Contains(r.err, <<"db", "version">>)
    \/ r.code = 0 /\ StripNotEmpty(r.out)

\* ensure_mongodb_installed: `mongod --version || true` and the early return
InstProbe ==
    /\ ipc = "probe"
    /\ \/ /\ probes' = [probes EXCEPT ![inode] = @ + 1]
          /\ probeOut' = [probeOut EXCEPT ![inode] = ProbeOutput(hasMongod[inode])]
          /\ IF AlreadyAvailable(probeOut'[inode])
             THEN IF inode < NumNodes
                  THEN inode' = inode + 1 /\ ipc' = "connect"
                  ELSE inode' = 1 /\ ipc' = "keygen"
             ELSE inode' = inode /\ ipc' = "codename"
          /\ UNCHANGED <<raisedAt, clients>>
       \/ /\ InstRaise("probe")
          /\ UNCHANGED <<probes, probeOut, inode>>
    /\ UNCHANGED <<hasMongod, codenameCmds, aptCmds, keyBytes, keyGens,
                   tmpKey, keyFile, tmpConf, confFile, restarts, attempts, waitOk, printed>>
    /\ UNCHANGED instOthers

\* ensure_mongodb_installed: detect the Ubuntu codename
InstCodename ==
    /\ ipc = "codename"
    /\ \/ /\ codenameCmds' = [codenameCmds EXCEPT ![inode] = @ + 1]
          /\ ipc' = "apt"
          /\ UNCHANGED <<raisedAt, clients>>
       \/ /\ InstRaise("codename")
          /\ UNCHANGED <<codenameCmds>>
    /\ UNCHANGED <<inode, hasMongod, probes, aptCmds, keyBytes, keyGens,
                   tmpKey, keyFile, tmpConf, confFile, restarts, attempts, waitOk, printed>>
    /\ UNCHANGED probeOut
    /\ UNCHANGED instOthers

\* ensure_mongodb_installed: add the repository, apt-get update, apt-get install
InstApt ==
    /\ ipc = "apt"
    /\ \/ /\ aptCmds' = [aptCmds EXCEPT ![inode] = @ + 1]
          /\ \E b \in BOOLEAN : hasMongod' = [hasMongod EXCEPT ![inode] = b]
          /\ IF inode < NumNodes
             THEN inode' = inode + 1 /\ ipc' = "connect"
             ELSE inode' = 1 /\ ipc' = "keygen"
          /\ UNCHANGED <<raisedAt, clients>>
       \/ /\ InstRaise("apt")
          /\ UNCHANGED <<aptCmds, hasMongod, inode>>
    /\ UNCHANGED <<probes, codenameCmds, keyBytes, keyGens,
                   tmpKey, keyFile, tmpConf, confFile, restarts, attempts, waitOk, printed>>
    /\ UNCHANGED probeOut
    /\ UNCHANGED instOthers

\* distribute_keyfile: key_bytes = random_keyfile_bytes()
InstKeygen ==
    /\ ipc = "keygen"
    /\ \E k \in Keys : keyBytes' = k
    /\ keyGens' = keyGens + 1
    /\ ipc' = "key_sftp"
    /\ inode' = 1
    /\ UNCHANGED <<hasMongod, probes, codenameCmds, aptCmds, clients, tmpKey, keyFile,
                   tmpConf, confFile, restarts, attempts, waitOk, raisedAt, printed>>
    /\ UNCHANGED probeOut
    /\ UNCHANGED instOthers

\* distribute_keyfile: sftp_write_file(client, "/tmp/mongod.key", key_bytes, 0o400)
InstKeySftp ==
    /\ ipc = "key_sftp"
    /\ \/ /\ tmpKey' = [tmpKey EXCEPT ![inode] = keyBytes]
          /\ ipc' = "key_mv"
          /\ UNCHANGED <<raisedAt, clients>>
       \/ /\ InstRaise("key_sftp")
          /\ UNCHANGED <<tmpKey>>
    /\ UNCHANGED <<inode, hasMongod, probes, codenameCmds, aptCmds, keyBytes, keyGens,
                   keyFile, tmpConf, confFile, restarts, attempts, waitOk, printed>>
    /\ UNCHANGED probeOut
    /\ UNCHANGED instOthers

\* The position after the keyfile reached node n: the next client of the
\* loop of distribute_keyfile, or the configuration loop of cmd_install.
AfterKeyMvFirstOnly(n) == <<"dirs", 1>>
AfterKeyMv(n) == IF n < NumNodes THEN <<"key_sftp", n + 1>> ELSE <<"dirs", 1>>

\* distribute_keyfile: sudo mv /tmp/mongod.key {keyfile_path} && chown && chmod
InstKeyMv ==
    /\ ipc = "key_mv"
    /\ \/ /\ keyFile' = [keyFile EXCEPT ![inode] = tmpKey[inode]]
          /\ tmpKey' = [tmpKey EXCEPT ![inode] = NoKey]
          /\ ipc' = AfterKeyMv(inode)[1]
          /\ inode' = AfterKeyMv(inode)[2]
          /\ UNCHANGED <<raisedAt, clients>>
       \/ /\ InstRaise("key_mv")
          /\ UNCHANGED <<keyFile, tmpKey, inode>>
    /\ UNCHANGED <<hasMongod, probes, codenameCmds, aptCmds, keyBytes, keyGens,
                   tmpConf, confFile, restarts, attempts, waitOk, printed>>
    /\ UNCHANGED probeOut
    /\ UNCHANGED instOthers

\* configure_mongod_service: install -d of db_path and of the log directory
InstDirs ==
    /\ ipc = "dirs"
    /\ \/ /\ ipc' = "conf_sftp"
          /\ UNCHANGED <<raisedAt, clients>>
       \/ InstRaise("dirs")
    /\ UNCHANGED <<inode, hasMongod, probes, codenameCmds, aptCmds, keyBytes, keyGens,
                   tmpKey, keyFile, tmpConf, confFile, restarts, attempts, waitOk, printed>>
    /\ UNCHANGED probeOut
    /\ UNCHANGED instOthers

\* configure_mongod_service: build_mongod_conf, sftp_write_file to /tmp/mongod.conf
InstConfSftp ==
    /\ ipc = "conf_sftp"
    /\ \/ /\ tmpConf' = [tmpConf EXCEPT ![inode] =
                            build_mongod_conf(DbPath, LogPath, ReplSetName, KeyFilePath, FALSE)]
          /\ ipc' = "conf_mv"
          /\ UNCHANGED <<raisedAt, clients>>
       \/ /\ InstRaise("conf_sftp")
          /\ UNCHANGED <<tmpConf>>
    /\ UNCHANGED <<inode, hasMongod, probes, codenameCmds, aptCmds, keyBytes, keyGens,
                   tmpKey, keyFile, confFile, restarts, attempts, waitOk, printed>>
    /\ UNCHANGED probeOut
    /\ UNCHANGED instOthers

\* configure_mongod_service: sudo mv /tmp/mongod.conf /etc/mongod.conf
InstConfMv ==
    /\ ipc = "conf_mv"
    /\ \/ /\ confFile' = [confFile EXCEPT ![inode] = tmpConf[inode]]
          /\ tmpConf' = [tmpConf EXCEPT ![inode] = NoConf]
          /\ ipc' = "svc_enable"
          /\ UNCHANGED <<raisedAt, clients>>
       \/ /\ InstRaise("conf_mv")
          /\ UNCHANGED <<confFile, tmpConf>>
    /\ UNCHANGED <<inode, hasMongod, probes, codenameCmds, aptCmds, keyBytes, keyGens,
                   tmpKey, keyFile, restarts, attempts, waitOk, printed>>
    /\ UNCHANGED probeOut
    /\ UNCHANGED instOthers

\* configure_mongod_service: sudo systemctl enable mongod
InstSvcEnable ==
    /\ ipc = "svc_enable"
    /\ \/ /\ ipc' = "svc_restart"
          /\ UNCHANGED <<raisedAt, clients>>
       \/ InstRaise("svc_enable")
    /\ UNCHANGED <<inode, hasMongod, probes, codenameCmds, aptCmds, keyBytes, keyGens,
                   tmpKey, keyFile, tmpConf, confFile, restarts, attempts, waitOk, printed>>
    /\ UNCHANGED probeOut
    /\ UNCHANGED instOthers

\* configure_mongod_service: sudo systemctl restart mongod
InstSvcRestart ==
    /\ ipc = "svc_restart"
    /\ \/ /\ restarts' = [restarts EXCEPT ![inode] = @ + 1]
          /\ ipc' = "logrotate"
          /\ UNCHANGED <<raisedAt, clients>>
       \/ /\ InstRaise("svc_restart")
          /\ UNCHANGED <<restarts>>
    /\ UNCHANGED <<inode, hasMongod, probes, codenameCmds, aptCmds, keyBytes, keyGens,
                   tmpKey, keyFile, tmpConf, confFile, attempts, waitOk, printed>>
    /\ UNCHANGED probeOut
    /\ UNCHANGED instOthers

\* install_logrotate: write /tmp/mongod-logrotate and move it to /etc/logrotate.d
InstLogrotate ==
    /\ ipc = "logrotate"
    /\ \/ /\ ipc' = "wait"
          /\ UNCHANGED <<raisedAt, clients>>
       \/ InstRaise("logrotate")
    /\ UNCHANGED <<inode, hasMongod, probes, codenameCmds, aptCmds, keyBytes, keyGens,
                   tmpKey, keyFile, tmpConf, confFile, restarts, attempts, waitOk, printed>>
    /\ UNCHANGED probeOut
    /\ UNCHANGED instOthers

\* tenacity's stop_after_attempt: no further attempt after this many.
StopAfterAttemptOffByOne(made) == made > RetryLimit
StopAfterAttempt(made) == made >= RetryLimit

\* wait_for_mongo(n.ip): one attempt of socket.create_connection under @retry;
\* after the last node, the print and the finally clause of cmd_install.
InstWait ==
    /\ ipc = "wait"
    /\ attempts' = [attempts EXCEPT ![inode] = @ + 1]
    /\ \/ /\ waitOk' = [waitOk EXCEPT ![inode] = TRUE]
          /\ IF inode < NumNodes
             THEN /\ inode' = inode + 1
                  /\ ipc' = "dirs"
                  /\ UNCHANGED <<printed, clients>>
             ELSE /\ inode' = inode
                  /\ printed' = TRUE
                  /\ clients' = {}
                  /\ ipc' = "done"
          /\ UNCHANGED <<raisedAt>>
       \/ /\ IF StopAfterAttempt(attempts'[inode])
             THEN InstRaise("wait")
             ELSE UNCHANGED <<ipc, raisedAt, clients>>
          /\ UNCHANGED <<waitOk, inode, printed>>
    /\ UNCHANGED <<hasMongod, probes, codenameCmds, aptCmds, keyBytes, keyGens,
                   tmpKey, keyFile, tmpConf, confFile, restarts>>
    /\ UNCHANGED probeOut
    /\ UNCHANGED instOthers

InstNext ==
    \/ InstConnect \/ InstProbe \/ InstCodename \/ InstApt
    \/ InstKeygen \/ InstKeySftp \/ InstKeyMv
    \/ InstDirs \/ InstConfSftp \/ InstConfMv \/ InstSvcEnable \/ InstSvcRestart
    \/ InstLogrotate \/ InstWait


\* ====================================================================
\* cluster_manager.py: init-replica, create-admin, enable-auth, run one
\* after the other against the nodes that install left behind.
\* ====================================================================
MaxRuns == 3
PollLimit == 30

Roles == {"primary", "secondary", "analytics"}
NoNode == 0

AuthLine == <<"  authorization: enabled">>
KeyFileLine == <<"  keyFile: ", KeyFilePath>>

\* str(e) of an OperationFailure, word by word.
MsgUserExists == <<"User", "clusterAdmin@admin", "already", "exists">>
MsgUserExistsCaps == <<"User", "Already", "Exists">>
MsgNotAuthorized == <<"not", "authorized", "on", "admin", "to", "execute", "command">>
MsgNotPrimary == <<"not", "primary">>
MsgAlreadyInit == <<"already", "initialized">>
Messages == {MsgUserExists, MsgUserExistsCaps, MsgNotAuthorized, MsgNotPrimary, MsgAlreadyInit}
NoMsg == << >>

\* str.lower() on one word
LowerWord(w) ==
    CASE w = "User" -> "user"
      [] w = "Already" -> "already"
      [] w = "Exists" -> "exists"
      [] OTHER -> w

\* str(e).lower()
Lower(msg) == [k \in 1..Len(msg) |-> LowerWord(msg[k])]

\* The test of the except clause of create_cluster_admin.
IsAlreadyExistsCaseSensitive(msg) == Contains(msg, <<"already", "exists">>)
IsAlreadyExists(msg) == Contains(Lower(msg), <<"already", "exists">>)

Commands == {"init-replica", "create-admin", "enable-auth"}

\* get_primary_node: the first node with role primary, NoNode when it raises ValueError
get_primary_node ==
    IF \E n \in Nodes : role[n] = "primary"
    THEN CHOOSE n \in Nodes : role[n] = "primary" /\ \A m \in Nodes : role[m] = "primary" => n <= m
    ELSE NoNode

AdmInit ==
    /\ role \in [Nodes -> Roles]
    /\ apc = "idle"
    /\ acmd = ""
    /\ runs = 0
    /\ aResult = ""
    /\ aErr = ""
    /\ rsInitiated = FALSE
    /\ authOn = [n \in Nodes |-> FALSE]
    /\ aTmpConf = [n \in Nodes |-> NoConf]
    /\ aConf = [n \in Nodes |-> build_mongod_conf(DbPath, LogPath, ReplSetName, KeyFilePath, FALSE)]
    /\ adminUser = FALSE
    /\ adminVersion = 0
    /\ versionBefore = 0
    /\ answer = <<"none", NoMsg>>
    /\ statusOk = FALSE
    /\ initiateSent = 0
    /\ sentToInitiated = 0
    /\ polls = 0
    /\ primarySeen = FALSE
    /\ eaClients = {}
    /\ eaNode = 1
    /\ rewritten = [n \in Nodes |-> FALSE]
    /\ restarted = [n \in Nodes |-> FALSE]

\* The run ends: the command returned or an exception left main.
AdmEnd(result, err) ==
    /\ apc' = "idle"
    /\ aResult' = result
    /\ aErr' = err

\* main: dispatch on args.command
AdmStart ==
    /\ apc = "idle"
    /\ runs < MaxRuns
    /\ \E c \in Commands :
         /\ acmd' = c
         /\ apc' = CASE c = "init-replica" -> "ir_primary"
                     [] c = "create-admin" -> "ca_primary"
                     [] c = "enable-auth" -> "ea_connect"
    /\ runs' = runs + 1
    /\ aResult' = ""
    /\ aErr' = ""
    /\ versionBefore' = adminVersion
    /\ answer' = <<"none", NoMsg>>
    /\ statusOk' = FALSE
    /\ initiateSent' = 0
    /\ polls' = 0
    /\ primarySeen' = FALSE
    /\ eaClients' = {}
    /\ eaNode' = 1
    /\ rewritten' = [n \in Nodes |-> FALSE]
    /\ restarted' = [n \in Nodes |-> FALSE]
    /\ UNCHANGED <<role, admServer, sentToInitiated>>
    /\ UNCHANGED admOthers

\* ----------------------------------------------- initiate_replica_set
\* primary = get_primary_node(cfg)
IrPrimary ==
    /\ apc = "ir_primary"
    /\ IF get_primary_node = NoNode
       THEN AdmEnd("raised", "ValueError")
       ELSE apc' = "ir_ping" /\ UNCHANGED <<aResult, aErr>>
    /\ UNCHANGED <<role, acmd, runs, admServer, admRun>>
    /\ UNCHANGED admOthers

\* client.admin.command("ping")
IrPing ==
    /\ apc = "ir_ping"
    /\ \/ apc' = "ir_status" /\ UNCHANGED <<aResult, aErr>>
       \/ AdmEnd("raised", "RuntimeError: cannot reach primary")
    /\ UNCHANGED <<role, acmd, runs, admServer, admRun>>
    /\ UNCHANGED admOthers

\* What replSetGetStatus on the primary, sent without credentials, can do:
\* answer ok == 1 ("ok") or raise ("raise").
StatusOutcomes ==
    IF authOn[get_primary_node] THEN {"raise"}        \* Unauthorized
    ELSE IF ~rsInitiated THEN {"raise"}               \* NotYetInitialized
    ELSE {"ok", "raise"}                              \* answer, or a network error

\* try: rs_status = replSetGetStatus; if ok == 1: return; except Exception: pass
IrStatus ==
    /\ apc = "ir_status"
    /\ \E o \in StatusOutcomes :
         IF o = "ok"
         THEN /\ statusOk' = TRUE
              /\ AdmEnd("returned", "")
         ELSE /\ apc' = "ir_initiate"
              /\ UNCHANGED <<statusOk, aResult, aErr>>
    /\ UNCHANGED <<role, acmd, runs, admServer, versionBefore, answer, initiateSent,
                   sentToInitiated, polls, primarySeen, eaClients, eaNode, rewritten, restarted>>
    /\ UNCHANGED admOthers

\* client.admin.command("replSetInitiate", cfg_doc)
IrInitiate ==
    /\ apc = "ir_initiate"
    /\ initiateSent' = initiateSent + 1
    /\ sentToInitiated' = IF rsInitiated THEN sentToInitiated + 1 ELSE sentToInitiated
    /\ \/ /\ ~rsInitiated
          /\ ~authOn[get_primary_node]
          /\ rsInitiated' = TRUE
          /\ apc' = "ir_poll"
          /\ UNCHANGED <<aResult, aErr>>
       \/ /\ AdmEnd("raised", "replSetInitiate failed")
          /\ UNCHANGED <<rsInitiated>>
    /\ UNCHANGED <<role, acmd, runs, authOn, aTmpConf, aConf, adminUser, adminVersion,
                   versionBefore, answer, statusOk, polls, primarySeen, eaClients, eaNode,
                   rewritten, restarted>>
    /\ UNCHANGED admOthers

\* for _ in range(30): no further poll after this many
PollsExhaustedOffByOne(made) == made > PollLimit
PollsExhausted(made) == made >= PollLimit

\* for _ in range(30): one poll of replSetGetStatus, which shows a PRIMARY,
\* or shows none or raises; after the last poll the timeout
IrPoll ==
    /\ apc = "ir_poll"
    /\ polls' = polls + 1
    /\ \/ /\ primarySeen' = TRUE
          /\ AdmEnd("returned", "")
       \/ /\ UNCHANGED <<primarySeen>>
          /\ IF PollsExhausted(polls')
             THEN AdmEnd("raised", "RuntimeError: timed out")
             ELSE UNCHANGED <<apc, aResult, aErr>>
    /\ UNCHANGED <<role, acmd, runs, admServer, versionBefore, answer, statusOk, initiateSent,
                   sentToInitiated, eaClients, eaNode, rewritten, restarted>>
    /\ UNCHANGED admOthers

\* ------------------------------------------------ create_cluster_admin
CaPrimary ==
    /\ apc = "ca_primary"
    /\ IF get_primary_node = NoNode
       THEN AdmEnd("raised", "ValueError")
       ELSE apc' = "ca_add_user" /\ UNCHANGED <<aResult, aErr>>
    /\ UNCHANGED <<role, acmd, runs, admServer, admRun>>
    /\ UNCHANGED admOthers

\* What the server can answer to add_user: the user is created ("created"),
\* an OperationFailure with a message ("opfail"), another exception ("error").
AddUserAnswers ==
    (IF ~adminUser /\ ~authOn[get_primary_node] THEN {<<"created", NoMsg>>} ELSE {})
    \cup (IF adminUser THEN {<<"opfail", MsgUserExists>>, <<"opfail", MsgUserExistsCaps>>} ELSE {})
    \cup {<<"opfail", MsgNotAuthorized>>, <<"opfail", MsgNotPrimary>>, <<"opfail", MsgAlreadyInit>>}
    \cup {<<"error", NoMsg>>}

\* try: client.admin.add_user(...) except OperationFailure as e: ...
CaAddUser ==
    /\ apc = "ca_add_user"
    /\ \E a \in AddUserAnswers :
         /\ answer' = a
         /\ CASE a[1] = "created" ->
                   /\ adminUser' = TRUE
                   /\ adminVersion' = adminVersion + 1
                   /\ AdmEnd("returned", "")
              [] a[1] = "opfail" ->
                   /\ UNCHANGED <<adminUser, adminVersion>>
                   /\ IF IsAlreadyExists(a[2])
                      THEN AdmEnd("returned", "")
                      ELSE AdmEnd("raised", "OperationFailure")
              [] OTHER ->
                   /\ UNCHANGED <<adminUser, adminVersion>>
                   /\ AdmEnd("raised", "ConnectionFailure")
    /\ UNCHANGED <<role, acmd, runs, rsInitiated, authOn, aTmpConf, aConf, versionBefore,
                   statusOk, initiateSent, sentToInitiated, polls, primarySeen, eaClients,
                   eaNode, rewritten, restarted>>
    /\ UNCHANGED admOthers

\* ----------------------------------------------------- cmd_enable_auth
\* An exception leaves the try block: the finally clause closes every client.
EaRaise(err) ==
    /\ AdmEnd("raised", err)
    /\ eaClients' = {}

\* for n in cfg.nodes: clients[n.name] = make_ssh_client(n)
EaConnect ==
    /\ apc = "ea_connect"
    /\ \/ /\ eaClients' = eaClients \cup {eaNode}
          /\ IF eaNode < NumNodes
             THEN eaNode' = eaNode + 1 /\ UNCHANGED apc
             ELSE eaNode' = 1 /\ apc' = "ea_sftp"
          /\ UNCHANGED <<aResult, aErr>>
       \/ /\ EaRaise("SSHException")
          /\ UNCHANGED <<eaNode>>
    /\ UNCHANGED <<role, acmd, runs, admServer, versionBefore, answer, statusOk, initiateSent,
                   sentToInitiated, polls, primarySeen, rewritten, restarted>>
    /\ UNCHANGED admOthers

\* The authorization argument of enable_authorization_on_all_nodes.
EaAuthorization == TRUE

\* enable_authorization_on_all_nodes: build_mongod_conf(..., authorization=True), sftp_write_file
EaSftp ==
    /\ apc = "ea_sftp"
    /\ \/ /\ aTmpConf' = [aTmpConf EXCEPT ![eaNode] =
                 build_mongod_conf(DbPath, LogPath, ReplSetName, KeyFilePath, EaAuthorization)]
          /\ apc' = "ea_mv"
          /\ UNCHANGED <<aResult, aErr, eaClients>>
       \/ /\ EaRaise("SSHException")
          /\ UNCHANGED <<aTmpConf>>
    /\ UNCHANGED <<role, acmd, runs, rsInitiated, authOn, aConf, adminUser, adminVersion,
                   versionBefore, answer, statusOk, initiateSent, sentToInitiated, polls,
                   primarySeen, eaNode, rewritten, restarted>>
    /\ UNCHANGED admOthers

\* enable_authorization_on_all_nodes: sudo mv /tmp/mongod.conf /etc/mongod.conf
EaMv ==
    /\ apc = "ea_mv"
    /\ \/ /\ aConf' = [aConf EXCEPT ![eaNode] = aTmpConf[eaNode]]
          /\ aTmpConf' = [aTmpConf EXCEPT ![eaNode] = NoConf]
          /\ rewritten' = [rewritten EXCEPT ![eaNode] = TRUE]
          /\ apc' = "ea_restart"
          /\ UNCHANGED <<aResult, aErr, eaClients>>
       \/ /\ EaRaise("SSHException")
          /\ UNCHANGED <<aConf, aTmpConf, rewritten>>
    /\ UNCHANGED <<role, acmd, runs, rsInitiated, authOn, adminUser, adminVersion,
                   versionBefore, answer, statusOk, initiateSent, sentToInitiated, polls,
                   primarySeen, eaNode, restarted>>
    /\ UNCHANGED admOthers

\* The position after node n was restarted: the next client, or print_status.
AfterEaRestartSkipLast(n) == IF n + 1 < NumNodes THEN <<"ea_sftp", n + 1>> ELSE <<"ea_status", n>>
AfterEaRestart(n) == IF n < NumNodes THEN <<"ea_sftp", n + 1>> ELSE <<"ea_status", n>>

\* enable_authorization_on_all_nodes: sudo systemctl restart mongod
EaRestart ==
    /\ apc = "ea_restart"
    /\ \/ /\ restarted' = [restarted EXCEPT ![eaNode] = TRUE]
          /\ authOn' = [authOn EXCEPT ![eaNode] = HasLine(aConf[eaNode], AuthLine)]
          /\ apc' = AfterEaRestart(eaNode)[1]
          /\ eaNode' = AfterEaRestart(eaNode)[2]
          /\ UNCHANGED <<aResult, aErr, eaClients>>
       \/ /\ EaRaise("SSHException")
          /\ UNCHANGED <<restarted, authOn, eaNode>>
    /\ UNCHANGED <<role, acmd, runs, rsInitiated, aTmpConf, aConf, adminUser, adminVersion,
                   versionBefore, answer, statusOk, initiateSent, sentToInitiated, polls,
                   primarySeen, rewritten>>
    /\ UNCHANGED admOthers

\* time.sleep(3); print_status(cfg, auth=True), which catches its own
\* exception; then the finally clause and the return
EaStatus ==
    /\ apc = "ea_status"
    /\ AdmEnd("returned", "")
    /\ eaClients' = {}
    /\ UNCHANGED <<role, acmd, runs, admServer, versionBefore, answer, statusOk, initiateSent,
                   sentToInitiated, polls, primarySeen, eaNode, rewritten, restarted>>
    /\ UNCHANGED admOthers

AdmNext ==
    \/ AdmStart
    \/ IrPrimary \/ IrPing \/ IrStatus \/ IrInitiate \/ IrPoll
    \/ CaPrimary \/ CaAddUser
    \/ EaConnect \/ EaSftp \/ EaMv \/ EaRestart \/ EaStatus

\* ====================================================================
\* web/app.py: POST /api/config and POST /api/ssh
\* ====================================================================
SNodeNames == {"mongo1", "mongo2"}

\* accounts.json: readable by load_config with these node names, or not
SConfigs == [ok : {TRUE}, nodes : SUBSET SNodeNames] \cup {[ok |-> FALSE, nodes |-> {}]}

AllowedKeys == {"uptime", "disk", "memory", "mongod", "log_tail"}

ALLOWED_COMMANDS ==
    [k \in AllowedKeys |->
        CASE k = "uptime" -> "uptime"
          [] k = "disk" -> "df -h"
          [] k = "memory" -> "free -h"
          [] k = "mongod" -> "systemctl is-active mongod"
          [] k = "log_tail" -> "tail -n 100 /var/log/mongodb/mongod.log | tail -n 100"]

\* JSON values a request can carry under "node" and "cmd": a string, null
\* (also what body.get returns for a missing key), an array.
JStr(v) == [kind |-> "str", val |-> v]
JNull == [kind |-> "null", val |-> ""]
JList == [kind |-> "list", val |-> ""]

SNodeValues == {JStr(n) : n \in SNodeNames \cup {"ghost"}} \cup {JNull}
SCmdValues == {JStr(k) : k \in AllowedKeys \cup {"rm -rf /", "df -h"}} \cup {JNull, JList}

\* The bodies of POST /api/ssh: a JSON object, or JSON that is no object.
SBodies == [dict : {TRUE}, node : SNodeValues, cmd : SCmdValues]
           \cup {[dict |-> FALSE, node |-> JNull, cmd |-> JNull]}

NoBody == [dict |-> FALSE, node |-> JNull, cmd |-> JNull]

\* hash(v) succeeds
Hashable(v) == v.kind # "list"

\* v in ALLOWED_COMMANDS, for a hashable v
InAllowed(v) == v.kind = "str" /\ v.val \in AllowedKeys

\* next((n for n in cfg.nodes if n.name == node_name), None) finds a node
NodeFound(cfg, v) == v.kind = "str" /\ v.val \in cfg.nodes

SshInit ==
    /\ sConfig \in SConfigs
    /\ sSeen = [ok |-> FALSE, nodes |-> {}]
    /\ sBody = NoBody
    /\ sStatus = 0
    /\ sOpened = FALSE
    /\ sExec = {}

\* set_config: the payload replaces accounts.json
SetConfig ==
    /\ \E c \in SConfigs : sConfig' = c
    /\ UNCHANGED <<sSeen, sBody, sStatus, sOpened, sExec>>
    /\ UNCHANGED sshOthers

\* The response of ssh_exec to body under configuration cfg, when the SSH
\* connect and exec_command succeed (conn, exec) or raise:
\* <<status, connection opened, commands executed>>
ssh_exec(body, cfg, conn, exec) ==
    IF ~body.dict THEN <<500, FALSE, {}>>              \* body.get raises
    ELSE IF ~Hashable(body.cmd) THEN <<500, FALSE, {}>> \* TypeError outside the try
    ELSE IF ~InAllowed(body.cmd) THEN <<400, FALSE, {}>>
    ELSE IF ~cfg.ok THEN <<500, FALSE, {}>>             \* load_config raises
    ELSE IF ~NodeFound(cfg, body.node) THEN <<404, FALSE, {}>>
    ELSE IF ~conn THEN <<500, FALSE, {}>>               \* client.connect raises
    ELSE IF ~exec THEN <<500, TRUE, {}>>                \* exec_command raises
    ELSE <<200, TRUE, {ALLOWED_COMMANDS[body.cmd.val]}>>

\* POST /api/ssh
SshExec ==
    /\ \E body \in SBodies, conn \in BOOLEAN, exec \in BOOLEAN :
         /\ sBody' = body
         /\ sSeen' = sConfig
         /\ sStatus' = ssh_exec(body, sConfig, conn, exec)[1]
         /\ sOpened' = ssh_exec(body, sConfig, conn, exec)[2]
         /\ sExec' = ssh_exec(body, sConfig, conn, exec)[3]
    /\ UNCHANGED sConfig
    /\ UNCHANGED sshOthers

SshNext == SetConfig \/ SshExec

\* ====================================================================
\* load_testing.py: MongoDBLoadTester
\* ====================================================================
\* self.clients iterates in insertion order, the order of config["nodes"].
FirstOf(S) == CHOOSE n \in S : \A m \in S : n <= m

\* get_primary_client: the first connected node with role primary, NoNode for None
get_primary_client_first ==
    IF lClients # {} THEN FirstOf(lClients) ELSE NoNode
get_primary_client ==
    IF \E n \in lClients : lRole[n] = "primary"
    THEN FirstOf({n \in lClients : lRole[n] = "primary"})
    ELSE NoNode

\* get_secondary_clients
get_secondary_clients_all == lClients
get_secondary_clients == {n \in lClients : lRole[n] = "secondary"}

LoadInit ==
    /\ lRole \in [Nodes -> Roles]
    /\ lPc = "connect"
    /\ lNode = 1
    /\ lClients = {}
    /\ lIssued = {}

\* connect_to_nodes: one node of the loop; a node that fails is skipped, and
\* after the loop an empty self.clients raises
LoadConnect ==
    /\ lPc = "connect"
    /\ \E ok \in BOOLEAN :
         /\ lClients' = IF ok THEN lClients \cup {lNode} ELSE lClients
         /\ IF lNode < NumNodes
            THEN lNode' = lNode + 1 /\ UNCHANGED lPc
            ELSE /\ UNCHANGED lNode
                 /\ lPc' = IF lClients' = {} THEN "failed" ELSE "run"
    /\ UNCHANGED <<lRole, lIssued>>
    /\ UNCHANGED loadOthers

\* read_worker: one iteration of the loop
ReadWorker ==
    /\ lPc = "run"
    /\ \E n \in (IF get_secondary_clients # {} THEN get_secondary_clients ELSE lClients) :
         lIssued' = lIssued \cup {<<"read", n>>}
    /\ UNCHANGED <<lRole, lPc, lNode, lClients>>
    /\ UNCHANGED loadOthers

\* write_worker: one iteration of the loop
WriteWorker ==
    /\ lPc = "run"
    /\ \E n \in (IF get_primary_client # NoNode THEN {get_primary_client} ELSE lClients) :
         lIssued' = lIssued \cup {<<"write", n>>}
    /\ UNCHANGED <<lRole, lPc, lNode, lClients>>
    /\ UNCHANGED loadOthers

\* analytics_worker: one iteration of the loop
AnalyticsWorker ==
    /\ lPc = "run"
    /\ \E n \in (IF get_secondary_clients # {} THEN get_secondary_clients ELSE lClients) :
         lIssued' = lIssued \cup {<<"analytics", n>>}
    /\ UNCHANGED <<lRole, lPc, lNode, lClients>>
    /\ UNCHANGED loadOthers

LoadNext == LoadConnect \/ ReadWorker \/ WriteWorker \/ AnalyticsWorker

\* ====================================================================
\* scripts/generate_dummy_data.py: generate_data
\* ====================================================================
MaxCompanies == 3
MaxEmployees == 2

\* A company document: where it came from and how often it was modified.
OldCompany(i) == [origin |-> "old", no |-> i, rev |-> 0]
NewCompany(i) == [origin |-> "new", no |-> i, rev |-> 0]

\* start_index of the loop over the companies
StartIndexZero(existing) == 0
StartIndex(existing) == existing

GenInit ==
    /\ gPc = "count"
    /\ gCount \in 0..MaxCompanies
    /\ gEmp \in 0..MaxEmployees
    /\ \E k \in 0..MaxCompanies : gInitial = [i \in 1..k |-> OldCompany(i)]
    /\ gCompanies = gInitial
    /\ gExisting = 0
    /\ gIdx = 0
    /\ gEmployees = 0

\* existing = db.companies.count_documents({}); start_index = existing;
\* range(start_index, companies_count) may be empty
GenCountExisting ==
    /\ gPc = "count"
    /\ \/ /\ gExisting' = Len(gCompanies)
          /\ gIdx' = StartIndex(gExisting')
          /\ gPc' = IF gIdx' < gCount THEN "logo" ELSE "done"
       \/ /\ gPc' = "raised"
          /\ UNCHANGED <<gExisting, gIdx>>
    /\ UNCHANGED <<gCount, gEmp, gInitial, gCompanies, gEmployees>>
    /\ UNCHANGED genOthers

\* random_logo(code); fs.put(logo_data, ...)
GenLogo ==
    /\ gPc = "logo"
    /\ gPc' \in {"company", "raised"}
    /\ UNCHANGED <<gCount, gEmp, gInitial, gCompanies, gExisting, gIdx, gEmployees>>
    /\ UNCHANGED genOthers

\* db.companies.insert_one(company_doc)
GenInsertCompany ==
    /\ gPc = "company"
    /\ \/ /\ gCompanies' = Append(gCompanies, NewCompany(gIdx + 1))
          /\ gPc' = "employees"
       \/ /\ gPc' = "raised"
          /\ UNCHANGED gCompanies
    /\ UNCHANGED <<gCount, gEmp, gInitial, gExisting, gIdx, gEmployees>>
    /\ UNCHANGED genOthers

\* the avatars, then db.employees.insert_many(employee_bulk), which raises
\* on an empty list
GenInsertEmployees ==
    /\ gPc = "employees"
    /\ \/ /\ gEmp > 0
          /\ gEmployees' = gEmployees + gEmp
          /\ gPc' = "details"
       \/ /\ gPc' = "raised"
          /\ UNCHANGED gEmployees
    /\ UNCHANGED <<gCount, gEmp, gInitial, gCompanies, gExisting, gIdx>>
    /\ UNCHANGED genOthers

\* attendance, leaves and payroll of the company; then the next idx
GenDetails ==
    /\ gPc = "details"
    /\ \/ /\ gIdx' = gIdx + 1
          /\ gPc' = IF gIdx' < gCount THEN "logo" ELSE "done"
       \/ /\ gPc' = "raised"
          /\ UNCHANGED gIdx
    /\ UNCHANGED <<gCount, gEmp, gInitial, gCompanies, gExisting, gEmployees>>
    /\ UNCHANGED genOthers

GenNext == GenCountExisting \/ GenLogo \/ GenInsertCompany \/ GenInsertEmployees \/ GenDetails

\* ====================================================================
\* mongodb-cluster/load-testing/load_test_runner.py: MongoLoadTester
\* ====================================================================
NumThreads == 1
OpsPerThread == 1
MaxDocs == 3

Threads == 1..NumThreads

\* self.test_collections
test_collections == <<"employees", "attendance", "payroll", "leaves", "documents">>
TestCollections == {test_collections[k] : k \in 1..Len(test_collections)}

\* self.operation_weights, in hundredths
operation_weights == [read |-> 60, write |-> 25, update |-> 10, delete |-> 5]

\* the operation types random.choices can return
OperationTypes == {k \in DOMAIN operation_weights : operation_weights[k] > 0}

\* the keys of self.clients for a cluster of three nodes
RClientNames == {"replica_set", "node_1", "node_2", "node_3"}

\* A collection name is the sequence of its parts.
\* db[collection_name] of the read path
RealName(c) == <<c>>
\* f"{collection_name}_test" of the write path
TestNameSame(c) == <<c>>
TestName(c) == <<c>> \o <<"_test">>

RNames == {RealName(c) : c \in TestCollections} \cup {<<c, "_test">> : c \in TestCollections}

\* The documents of a collection: exists (listed by list_collection_names),
\* plain documents (no metadata.test_type == 'load_test'), tagged documents
\* as generate_test_data made them (fresh) and tagged documents update_one
\* touched (upd).
Coll(e, p, f, u) == [exists |-> e, plain |-> p, fresh |-> f, upd |-> u]
Tagged(d) == d.fresh + d.upd

WriteOps == {"insert_one", "insert_many", "update_one", "delete_one"}

\* Before the load test the real collections hold a document, and the
\* <collection>_test collections are absent or hold what an earlier run
\* left: a plain document and a tagged one.
RunInit ==
    /\ rPc = "run"
    /\ \E q \in 0..1 :
         rInitial = [nm \in RNames |->
                        IF Len(nm) = 1 THEN Coll(TRUE, 1, 0, 0) ELSE Coll(q > 0, q, q, 0)]
    /\ rDb = rInitial
    /\ rOpsLeft = [t \in Threads |-> OpsPerThread]
    /\ rLast = <<"", << >>, "">>
    /\ rClean = 1

\* worker_thread, operation_type == 'read': perform_read_operation
RunRead ==
    /\ rPc = "run"
    /\ "read" \in OperationTypes
    /\ \E t \in Threads, client \in RClientNames, c \in TestCollections :
         /\ rOpsLeft[t] > 0
         /\ rOpsLeft' = [rOpsLeft EXCEPT ![t] = @ - 1]
         /\ rLast' = <<client, RealName(c), "read">>
    /\ UNCHANGED <<rPc, rInitial, rDb, rClean>>
    /\ UNCHANGED runOthers

\* The effect of one write operation on the documents d of a collection.
ApplyWrite(d, op, count) ==
    CASE op = "insert_one" -> {Coll(TRUE, d.plain, d.fresh + 1, d.upd)}
      [] op = "insert_many" -> {Coll(TRUE, d.plain, d.fresh + count, d.upd)}
      [] op = "update_one" ->
            (IF d.fresh > 0 THEN {Coll(d.exists, d.plain, d.fresh - 1, d.upd + 1)} ELSE {})
            \cup (IF d.upd > 0 \/ Tagged(d) = 0 THEN {d} ELSE {})
      [] op = "delete_one" ->
            (IF d.fresh > 0 THEN {Coll(d.exists, d.plain, d.fresh - 1, d.upd)} ELSE {})
            \cup (IF d.upd > 0 THEN {Coll(d.exists, d.plain, d.fresh, d.upd - 1)} ELSE {})
            \cup (IF Tagged(d) = 0 THEN {d} ELSE {})

\* The number of documents an operation inserts: 1, random.randint(2, 10), or
\* none; an insert that would exceed the room left under MaxDocs is left out.
InsertCounts(op, room) ==
    CASE op = "insert_one" -> {n \in {1} : n <= room}
      [] op = "insert_many" -> {n \in 2..10 : n <= room}
      [] OTHER -> {0}

\* worker_thread, operation_type in ['write', 'update', 'delete']:
\* perform_write_operation(collection_name), its exception caught inside
RunWrite ==
    /\ rPc = "run"
    /\ OperationTypes \cap {"write", "update", "delete"} # {}
    /\ \E t \in Threads, c \in TestCollections, op \in WriteOps :
       \E count \in InsertCounts(op, MaxDocs - Tagged(rDb[TestName(c)])) :
         /\ rOpsLeft[t] > 0
         /\ rOpsLeft' = [rOpsLeft EXCEPT ![t] = @ - 1]
         /\ rLast' = <<"replica_set", TestName(c), op>>
         /\ \/ \E d \in ApplyWrite(rDb[TestName(c)], op, count) :
                  rDb' = [rDb EXCEPT ![TestName(c)] = d]
            \/ UNCHANGED rDb
    /\ UNCHANGED <<rPc, rInitial, rClean>>
    /\ UNCHANGED runOthers

\* worker_thread, the else branch: perform_analytics_operation.  It is taken
\* for an operation type other than read, write, update and delete; no key of
\* operation_weights is one, so it is no disjunct of RunNext.
RunAnalytics ==
    /\ rPc = "run"
    /\ OperationTypes \ {"read", "write", "update", "delete"} # {}
    /\ \E t \in Threads :
         /\ rOpsLeft[t] > 0
         /\ rOpsLeft' = [rOpsLeft EXCEPT ![t] = @ - 1]
         /\ rLast' = <<"analytics", << >>, "aggregate">>
    /\ UNCHANGED <<rPc, rInitial, rDb, rClean>>
    /\ UNCHANGED runOthers

\* main: every worker finished; cleanup_test_data unless --no-cleanup
RunFinish ==
    /\ rPc = "run"
    /\ \A t \in Threads : rOpsLeft[t] = 0
    /\ rPc' \in {"cleanup", "done"}
    /\ UNCHANGED <<rInitial, rDb, rOpsLeft, rLast, rClean>>
    /\ UNCHANGED runOthers

\* delete_many({'metadata.test_type': 'load_test'}) on the documents d
DeleteManyFreshOnly(d) == Coll(TRUE, d.plain, 0, d.upd)
DeleteMany(d) == Coll(TRUE, d.plain, 0, 0)

\* cleanup_test_data: one collection of the loop; an exception ends the loop
\* and is printed ("cleanup_failed")
RunCleanup ==
    /\ rPc = "cleanup"
    /\ LET nm == TestName(test_collections[rClean])
       IN  \/ /\ IF rDb[nm].exists
                 THEN /\ rDb' = [rDb EXCEPT ![nm] = DeleteMany(@)]
                      /\ rLast' = <<"replica_set", nm, "delete_many">>
                 ELSE UNCHANGED <<rDb, rLast>>
              /\ IF rClean < Len(test_collections)
                 THEN rClean' = rClean + 1 /\ UNCHANGED rPc
                 ELSE rPc' = "cleaned" /\ UNCHANGED rClean
           \/ /\ rPc' = "cleanup_failed"
              /\ UNCHANGED <<rDb, rLast, rClean>>
    /\ UNCHANGED <<rInitial, rOpsLeft>>
    /\ UNCHANGED runOthers

RunNext == RunRead \/ RunWrite \/ RunFinish \/ RunCleanup

\* ====================================================================
\* web_dashboard.py: MongoDBDashboard, POST /api/monitoring and the
\* monitoring loop.  Requests are served by concurrent handlers; every
\* statement that reads or writes self.monitoring_active or
\* self.monitoring_thread is a step of its own.  A measurement and an alert
\* are kept by their ordinal; what was measured is chosen where
\* _check_alerts looks at it.
\* ====================================================================
NumHandlers == 2
MaxLoopThreads == 2
MaxIterations == 1

LagKeep == 100
AlertKeep == 50
LagAlertMs == 1000
LagCriticalMs == 5000

Handlers == 1..NumHandlers
LoopThreads == 1..MaxLoopThreads
NoThread == 0

\* x[-n:]
LastFirstN(x, n) == SubSeq(x, 1, n)
Last(x, n) == SubSeq(x, Len(x) - n + 1, Len(x))

\* if len(x) > n: x = x[-n:]
KeepLast(x, n) == IF Len(x) > n THEN Last(x, n) ELSE x

\* the ordinals base+1 .. base+k, in order
Ordinals(base, k) == [i \in 1..k |-> base + i]

\* lag_ms = (primary_timestamp.time - secondary_timestamp.time) * 1000: whole seconds
LagValues == {1000, 2000, 4000, 5000}

\* A value of lag_results[ip]: no entry, {"error": ...}, or a dict with lag_ms.
LagAbsent == [kind |-> "absent", lag_ms |-> 0]
LagError == [kind |-> "error", lag_ms |-> 0]
LagOf(v) == [kind |-> "lag", lag_ms |-> v]
LagInfos == {LagAbsent, LagError} \cup {LagOf(v) : v \in LagValues}

\* What measure_replication_lag returns: {"error": <str>} (error), or one
\* entry per connected secondary, in the order of self.clients.
NoLagData == [error |-> TRUE, info |-> [n \in Nodes |-> LagAbsent]]
LagDatas == {NoLagData} \cup [error : {FALSE}, info : [Nodes -> LagInfos]]

\* What get_node_status returns: the status of every entry of self.clients.
Statuses == {"connected", "disconnected", "error"}
NodeStatuses == [Nodes -> Statuses]
NoNodeStatus == [n \in Nodes |-> "connected"]

\* "warning" if lag_ms < 5000 else "critical"
SeverityInclusive(lag_ms) == IF lag_ms <= LagCriticalMs THEN "warning" ELSE "critical"
Severity(lag_ms) == IF lag_ms < LagCriticalMs THEN "warning" ELSE "critical"

Alert(type, severity, n) == [type |-> type, severity |-> severity, node |-> n]

\* _check_alerts, first loop: items of lag_data from node n on.  The item
\* "error" of an error result holds a string and is skipped.
RECURSIVE LagAlerts(_, _)
LagAlerts(lag, n) ==
    IF n > NumNodes THEN << >>
    ELSE (IF ~lag.error /\ lag.info[n].kind = "lag" /\ lag.info[n].lag_ms > LagAlertMs
          THEN << Alert("replication_lag", Severity(lag.info[n].lag_ms), n) >>
          ELSE << >>) \o LagAlerts(lag, n + 1)

\* _check_alerts, second loop: items of node_status from node n on
RECURSIVE StatusAlerts(_, _)
StatusAlerts(st, n) ==
    IF n > NumNodes THEN << >>
    ELSE (IF st[n] # "connected"
          THEN << Alert("node_status", "critical", n) >>
          ELSE << >>) \o StatusAlerts(st, n + 1)

\* _check_alerts: the local list alerts
_check_alerts(lag, st) == LagAlerts(lag, 1) \o StatusAlerts(st, 1)

MonInit ==
    /\ monitoring_active = FALSE
    /\ monitoring_thread = NoThread
    /\ replication_lag = << >>
    /\ alerts = << >>
    /\ measured = 0
    /\ alerted = 0
    /\ updates = 0
    /\ iterations = 0
    /\ tpc = [t \in LoopThreads |-> "unborn"]
    /\ hpc = [h \in Handlers |-> "idle"]
    /\ hThread = [h \in Handlers |-> NoThread]
    /\ hOverlap = [h \in Handlers |-> FALSE]
    /\ lastStop = [returned |-> FALSE, clean |-> FALSE, active |-> FALSE, live |-> {}]
    /\ lag_data = NoLagData
    /\ node_status = NoNodeStatus
    /\ new_alerts = << >>

StartPcs == {"start_if", "start_set", "start_new", "start_run"}
StopPcs == {"stop_set", "stop_read", "stop_join"}

\* the threads created so far
Created == {t \in LoopThreads : tpc[t] # "unborn"}
\* the threads running _monitoring_loop
Live == {t \in LoopThreads : tpc[t] \in {"check", "measure", "trim", "alerts", "sleep"}}

\* toggle_monitoring, action == 'start': the request enters start_monitoring
ReqStart ==
    /\ \E h \in Handlers :
         /\ hpc[h] = "idle"
         /\ Cardinality(Created) + Cardinality({g \in Handlers : hpc[g] \in StartPcs})
                < MaxLoopThreads
         /\ hpc' = [hpc EXCEPT ![h] = "start_if"]
         /\ hOverlap' = [g \in Handlers |-> IF hpc[g] \in StopPcs THEN TRUE ELSE hOverlap[g]]
    /\ UNCHANGED <<monitoring_active, monitoring_thread, replication_lag, alerts, measured,
                   alerted, updates, iterations, tpc, hThread, lastStop,
                   lag_data, node_status, new_alerts>>
    /\ UNCHANGED monOthers

\* start_monitoring: if self.monitoring_active: return
StartIf ==
    /\ \E h \in Handlers :
         /\ hpc[h] = "start_if"
         /\ hpc' = [hpc EXCEPT ![h] = IF monitoring_active THEN "idle" ELSE "start_set"]
    /\ UNCHANGED <<monitoring_active, monitoring_thread, replication_lag, alerts, measured,
                   alerted, updates, iterations, tpc, hThread, hOverlap, lastStop,
                   lag_data, node_status, new_alerts>>
    /\ UNCHANGED monOthers

\* start_monitoring: self.monitoring_active = True
StartSet ==
    /\ \E h \in Handlers :
         /\ hpc[h] = "start_set"
         /\ hpc' = [hpc EXCEPT ![h] = "start_new"]
    /\ monitoring_active' = TRUE
    /\ UNCHANGED <<monitoring_thread, replication_lag, alerts, measured,
                   alerted, updates, iterations, tpc, hThread, hOverlap, lastStop,
                   lag_data, node_status, new_alerts>>
    /\ UNCHANGED monOthers

\* start_monitoring: self.monitoring_thread = threading.Thread(target=self._monitoring_loop)
StartNew ==
    /\ \E h \in Handlers :
         /\ hpc[h] = "start_new"
         /\ hpc' = [hpc EXCEPT ![h] = "start_run"]
    /\ LET t == Cardinality(Created) + 1
       IN  /\ monitoring_thread' = t
           /\ tpc' = [tpc EXCEPT ![t] = "created"]
    /\ UNCHANGED <<monitoring_active, replication_lag, alerts, measured,
                   alerted, updates, iterations, hThread, hOverlap, lastStop,
                   lag_data, node_status, new_alerts>>
    /\ UNCHANGED monOthers

\* start_monitoring: self.monitoring_thread.daemon = True;
\* self.monitoring_thread.start(), which raises RuntimeError for a thread
\* that was started already
StartRun ==
    /\ \E h \in Handlers :
         /\ hpc[h] = "start_run"
         /\ hpc' = [hpc EXCEPT ![h] = "idle"]
    /\ tpc' = IF tpc[monitoring_thread] = "created"
              THEN [tpc EXCEPT ![monitoring_thread] = "check"]
              ELSE tpc
    /\ UNCHANGED <<monitoring_active, monitoring_thread, replication_lag, alerts, measured,
                   alerted, updates, iterations, hThread, hOverlap, lastStop,
                   lag_data, node_status, new_alerts>>
    /\ UNCHANGED monOthers

\* toggle_monitoring, action == 'stop': the request enters stop_monitoring
ReqStop ==
    /\ \E h \in Handlers :
         /\ hpc[h] = "idle"
         /\ hpc' = [hpc EXCEPT ![h] = "stop_set"]
         /\ hOverlap' = [hOverlap EXCEPT ![h] = \E g \in Handlers : hpc[g] \in StartPcs]
    /\ UNCHANGED <<monitoring_active, monitoring_thread, replication_lag, alerts, measured,
                   alerted, updates, iterations, tpc, hThread, lastStop,
                   lag_data, node_status, new_alerts>>
    /\ UNCHANGED monOthers

\* stop_monitoring: self.monitoring_active = False
StopSet ==
    /\ \E h \in Handlers :
         /\ hpc[h] = "stop_set"
         /\ hpc' = [hpc EXCEPT ![h] = "stop_read"]
    /\ monitoring_active' = FALSE
    /\ UNCHANGED <<monitoring_thread, replication_lag, alerts, measured,
                   alerted, updates, iterations, tpc, hThread, hOverlap, lastStop,
                   lag_data, node_status, new_alerts>>
    /\ UNCHANGED monOthers

\* stop_monitoring returns to handler h
StopReturn(h) ==
    /\ hpc' = [hpc EXCEPT ![h] = "idle"]
    /\ lastStop' = [returned |-> TRUE, clean |-> ~hOverlap[h],
                    active |-> monitoring_active, live |-> Live]

\* stop_monitoring: if self.monitoring_thread: self.monitoring_thread.join()
\* begins; join raises RuntimeError for a thread that was not started
StopRead ==
    /\ \E h \in Handlers :
         /\ hpc[h] = "stop_read"
         /\ IF monitoring_thread = NoThread
            THEN StopReturn(h) /\ UNCHANGED hThread
            ELSE /\ hThread' = [hThread EXCEPT ![h] = monitoring_thread]
                 /\ hpc' = [hpc EXCEPT ![h] =
                              IF tpc[monitoring_thread] = "created" THEN "idle" ELSE "stop_join"]
                 /\ UNCHANGED lastStop
    /\ UNCHANGED <<monitoring_active, monitoring_thread, replication_lag, alerts, measured,
                   alerted, updates, iterations, tpc, hOverlap,
                   lag_data, node_status, new_alerts>>
    /\ UNCHANGED monOthers

\* stop_monitoring: join returns once the thread has terminated
StopJoin ==
    /\ \E h \in Handlers :
         /\ hpc[h] = "stop_join"
         /\ tpc[hThread[h]] = "dead"
         /\ StopReturn(h)
    /\ UNCHANGED <<monitoring_active, monitoring_thread, replication_lag, alerts, measured,
                   alerted, updates, iterations, tpc, hThread, hOverlap,
                   lag_data, node_status, new_alerts>>
    /\ UNCHANGED monOthers

\* _monitoring_loop: while self.monitoring_active
LoopCheck ==
    /\ \E t \in LoopThreads :
         /\ tpc[t] = "check"
         /\ tpc' = [tpc EXCEPT ![t] = IF monitoring_active THEN "measure" ELSE "dead"]
    /\ UNCHANGED <<monitoring_active, monitoring_thread, replication_lag, alerts, measured,
                   alerted, updates, iterations, hpc, hThread, hOverlap, lastStop,
                   lag_data, node_status, new_alerts>>
    /\ UNCHANGED monOthers

\* _monitoring_loop: lag_data = self.measure_replication_lag(), which catches
\* its exceptions; monitoring_data["replication_lag"].append(lag_data)
LoopMeasure ==
    /\ \E t \in LoopThreads :
         /\ tpc[t] = "measure"
         /\ tpc' = [tpc EXCEPT ![t] = "trim"]
    /\ iterations < MaxIterations
    /\ iterations' = iterations + 1
    /\ measured' = measured + 1
    /\ replication_lag' = Append(replication_lag, measured + 1)
    /\ UNCHANGED <<monitoring_active, monitoring_thread, alerts,
                   alerted, updates, hpc, hThread, hOverlap, lastStop,
                   lag_data, node_status, new_alerts>>
    /\ UNCHANGED monOthers

\* _monitoring_loop: keep the last 100 measurements; get_node_status, which
\* catches its exceptions; socketio.emit('monitoring_update', ...), whose
\* exception ends the iteration with time.sleep(10)
LoopTrim ==
    /\ \E t \in LoopThreads :
         /\ tpc[t] = "trim"
         /\ \/ /\ updates' = updates + 1
               /\ tpc' = [tpc EXCEPT ![t] = "alerts"]
            \/ /\ UNCHANGED updates
               /\ tpc' = [tpc EXCEPT ![t] = "sleep"]
    /\ replication_lag' = KeepLast(replication_lag, LagKeep)
    /\ UNCHANGED <<monitoring_active, monitoring_thread, alerts, measured,
                   alerted, iterations, hpc, hThread, hOverlap, lastStop,
                   lag_data, node_status, new_alerts>>
    /\ UNCHANGED monOthers

\* every list _check_alerts can build
AlertBatches == {_check_alerts(lag, st) : lag \in LagDatas, st \in NodeStatuses}

\* _check_alerts called by thread t, after its loops built the list batch:
\* the new alerts are appended, the last 50 alerts are kept, the new alerts
\* are emitted; an exception of that emit ends the iteration just the same
CheckAlertsTail(t, batch) ==
    /\ tpc[t] = "alerts"
    /\ tpc' = [tpc EXCEPT ![t] = "sleep"]
    /\ alerted' = alerted + Len(batch)
    /\ alerts' = KeepLast(alerts \o Ordinals(alerted, Len(batch)), AlertKeep)
    /\ UNCHANGED <<monitoring_active, monitoring_thread, replication_lag, measured,
                   updates, iterations, hpc, hThread, hOverlap, lastStop>>
    /\ UNCHANGED monOthers

\* _monitoring_loop: self._check_alerts(lag_data, node_status)
LoopAlerts ==
    /\ \E t \in LoopThreads, batch \in AlertBatches : CheckAlertsTail(t, batch)
    /\ UNCHANGED <<lag_data, node_status, new_alerts>>

\* _monitoring_loop: time.sleep(5), or time.sleep(10) of the except clause
LoopSleep ==
    /\ \E t \in LoopThreads :
         /\ tpc[t] = "sleep"
         /\ tpc' = [tpc EXCEPT ![t] = "check"]
    /\ UNCHANGED <<monitoring_active, monitoring_thread, replication_lag, alerts, measured,
                   alerted, updates, iterations, hpc, hThread, hOverlap, lastStop,
                   lag_data, node_status, new_alerts>>
    /\ UNCHANGED monOthers

\* _check_alerts called with the arguments lag_data and node_status
CheckAlerts ==
    /\ CheckAlertsTail(1, _check_alerts(lag_data, node_status))
    /\ new_alerts' = _check_alerts(lag_data, node_status)
    /\ UNCHANGED <<lag_data, node_status>>

\* the dashboard serving POST /api/monitoring
MonNext ==
    \/ ReqStart \/ StartIf \/ StartSet \/ StartNew \/ StartRun
    \/ ReqStop \/ StopSet \/ StopRead \/ StopJoin
    \/ LoopCheck \/ LoopMeasure \/ LoopTrim \/ LoopAlerts \/ LoopSleep

\* one monitoring thread, and the requests that stop it
LoopNext ==
    \/ ReqStop \/ StopSet \/ StopRead \/ StopJoin
    \/ LoopCheck \/ LoopMeasure \/ LoopTrim \/ LoopAlerts \/ LoopSleep

\* one call of _check_alerts
AlertsNext == CheckAlerts

\* ====================================================================
\* loadtest/locustfile.py: the user classes Locust spawns
\* ====================================================================
MaxUsers == 14

\* the User subclasses of the module
UserClasses == {"CRUDUser", "AnalyticsUser"}

\* weight of a user class: neither class body assigns weight, so both
\* inherit locust.User.weight
UserWeight == 1
weight(c) == UserWeight

\* Locust has loaded the locustfile and read the weight of each class
LocInit ==
    /\ weights = [c \in UserClasses |-> weight(c)]
    /\ spawned = [c \in UserClasses |-> 0]

\* Locust spawns one more user, of a class its weight lets it pick
Spawn ==
    /\ spawned["CRUDUser"] + spawned["AnalyticsUser"] < MaxUsers
    /\ \E c \in UserClasses :
         /\ weights[c] > 0
         /\ spawned' = [spawned EXCEPT ![c] = @ + 1]
    /\ UNCHANGED weights
    /\ UNCHANGED locOthers

LocNext == Spawn

\* ====================================================================
\* web_dashboard.py: MongoDBDashboard.execute_query
\* ====================================================================
MaxQueryLen == 3
MaxCalls == 2

\* A query is given piece by piece: a blank, the prefix "db.", or an
\* expression that follows the prefix.
Blank == " "
DbPrefix == "db."
FindExpr == "users.find()"
ExitExpr == "name and exit()"
Pieces == {Blank, DbPrefix, FindExpr, ExitExpr}
Queries == UNION {[1..k -> Pieces] : k \in 0..MaxQueryLen}

\* str.strip(): leading and trailing blanks removed
RECURSIVE lstrip(_)
lstrip(q) == IF q # << >> /\ Head(q) = Blank THEN lstrip(Tail(q)) ELSE q
RECURSIVE rstrip(_)
rstrip(q) == IF q # << >> /\ q[Len(q)] = Blank THEN rstrip(SubSeq(q, 1, Len(q) - 1)) ELSE q
strip(q) == rstrip(lstrip(q))

\* str.startswith, for a prefix that is one piece
startswith(q, prefix) == q # << >> /\ Head(q) = prefix

\* node_ip: None, the ip of a configured node, or an ip no node has
NoIp == 0
UnknownIp == NumNodes + 1
NodeIps == {NoIp, UnknownIp} \cup Nodes

\* A value of self.clients[ip] after connect_to_nodes: the entry of a failed
\* connection has no role.  NoClient: ip not in self.clients.
NoClient == [status |-> "absent", role |-> "none"]
Disconnected == [status |-> "disconnected", role |-> "none"]
ConnectedAs(r) == [status |-> "connected", role |-> r]
ClientInfos == {Disconnected} \cup {ConnectedAs(r) : r \in Roles}

\* node_ip and node_ip in self.clients
Known(node_ip) == node_ip \in Nodes /\ qClients[node_ip] # NoClient

\* MongoDBDashboard.get_primary_client: the first entry with role primary and status connected
PrimaryIps == {n \in Nodes : qClients[n].role = "primary" /\ qClients[n].status = "connected"}
dashboard_get_primary_client ==
    IF PrimaryIps = {} THEN NoIp
    ELSE CHOOSE n \in PrimaryIps : \A m \in PrimaryIps : n <= m

\* How eval(f"db.{collection_query}") and the conversion of its result can
\* end: with a value, or with the class of the exception raised.  A find
\* gives a cursor or fails on the server; exit() raises SystemExit; any other
\* text is not an expression.
EvalOutcomes(collection_query) ==
    IF collection_query = <<FindExpr>> THEN {"value", "OperationFailure"}
    ELSE IF collection_query = <<ExitExpr>> THEN {"SystemExit"}
    ELSE {"SyntaxError"}

\* the classes `except Exception` catches: SystemExit derives from BaseException
IsException(class) == class \in {"OperationFailure", "SyntaxError"}

\* How a call ended: a returned dict with "error" or "success", or an
\* exception leaving the function; evaluated: eval was called, for node `on`.
NoResp == [kind |-> "none", msg |-> "", evaluated |-> FALSE, on |-> NoIp]
ErrorResp(msg) == [kind |-> "error", msg |-> msg, evaluated |-> FALSE, on |-> NoIp]
EvalResp(kind, msg, ip) == [kind |-> kind, msg |-> msg, evaluated |-> TRUE, on |-> ip]

\* execute_query(query, node_ip), where eval ends with outcome
execute_query(query, node_ip, outcome) ==
    LET client_info == IF Known(node_ip) THEN node_ip ELSE dashboard_get_primary_client
    IN  IF client_info = NoIp THEN ErrorResp("No available nodes")
        ELSE IF qClients[client_info].status # "connected"
             THEN ErrorResp("Node is not connected")
        ELSE IF startswith(strip(query), DbPrefix)
             THEN IF outcome = "value" THEN EvalResp("success", "", client_info)
                  ELSE IF IsException(outcome) THEN EvalResp("error", outcome, client_info)
                  ELSE EvalResp("escaped", outcome, client_info)
        ELSE ErrorResp("Invalid query format")

\* self.clients = {} and no call made
QryInit ==
    /\ qClients = [n \in Nodes |-> NoClient]
    /\ qQuery = << >>
    /\ qNodeIp = NoIp
    /\ qResp = NoResp
    /\ qCalls = 0

\* connect_to_nodes, at start-up and after a change of the configuration:
\* every node of the configuration gets an entry
ConnectToNodes ==
    /\ qResp = NoResp
    /\ qClients' \in [Nodes -> ClientInfos]
    /\ UNCHANGED <<qQuery, qNodeIp, qResp, qCalls>>
    /\ UNCHANGED qryOthers

\* query.strip()[3:], what follows the prefix
collection_query(query) == IF strip(query) = << >> THEN << >> ELSE Tail(strip(query))

\* POST /api/query: result = dashboard.execute_query(query, node_ip)
ExecuteQuery ==
    /\ qResp = NoResp
    /\ qCalls < MaxCalls
    /\ \E query \in Queries, node_ip \in NodeIps :
         \E outcome \in EvalOutcomes(collection_query(query)) :
             /\ qQuery' = query
             /\ qNodeIp' = node_ip
             /\ qResp' = execute_query(query, node_ip, outcome)
    /\ UNCHANGED <<qClients, qCalls>>
    /\ UNCHANGED qryOthers

\* POST /api/query: return jsonify(result), or the exception leaves the view
Respond ==
    /\ qResp # NoResp
    /\ qQuery' = << >>
    /\ qNodeIp' = NoIp
    /\ qResp' = NoResp
    /\ qCalls' = qCalls + 1
    /\ UNCHANGED qClients
    /\ UNCHANGED qryOthers

QryNext == ConnectToNodes \/ ExecuteQuery \/ Respond

\* ====================================================================
\* tools/load_test.py: Counter, the workers and main
\* ====================================================================
NumWorkers == 2
MaxIncs == 2

\* the threads main starts, and main itself
Workers == 1..NumWorkers
Main == 0
NoHolder == -1

\* the keys of Counter.counts
CounterKeys == {"read", "write", "analytics", "errors"}

\* target of the thread: worker_read, worker_write or worker_analytics
KindOf(w) == IF w % 3 = 1 THEN "analytics" ELSE IF w % 3 = 2 THEN "read" ELSE "write"

\* Counter.__init__: every key at 0
ZeroCounts == [k \in CounterKeys |-> 0]

\* main after the threads were started, about to take its first snapshot;
\* each worker is at the first line of its target
ToolInit ==
    /\ stop_evt = FALSE
    /\ counts = ZeroCounts
    /\ lock = NoHolder
    /\ mpc = "first"
    /\ wpc = [w \in Workers |-> "setup"]
    /\ wKey = [w \in Workers |-> KindOf(w)]
    /\ wLocal = [w \in Workers |-> 0]
    /\ applied = ZeroCounts
    /\ last_counts = ZeroCounts
    /\ snap = ZeroCounts
    /\ cfgAnalytics \in BOOLEAN
    /\ cause = "none"

\* with self.lock: the thread enters when no thread holds the lock
AcquireUnlocked(t) == TRUE
Acquire(t) == lock = NoHolder

\* the increments begun: written, being written, or in a loop body that may
\* still count
IncsBegun ==
    applied["read"] + applied["write"] + applied["analytics"] + applied["errors"]
        + Cardinality({w \in Workers : wpc[w] \in {"call", "inc", "write"}})

\* worker_*: the lines before the loop; worker_analytics returns when
\* get_analytics_node(cfg) gives None
WSetup(w) ==
    /\ wpc[w] = "setup"
    /\ wpc' = [wpc EXCEPT ![w] = IF KindOf(w) = "analytics" /\ ~cfgAnalytics
                                 THEN "done" ELSE "test"]
    /\ UNCHANGED <<stop_evt, counts, lock, mpc, wKey, wLocal, applied, last_counts, snap,
                   cfgAnalytics, cause>>

\* while not stop_evt.is_set()
LoopTestIgnoresEvent(w) == FALSE
LoopTestLeaves(w) == stop_evt

WTest(w) ==
    /\ wpc[w] = "test"
    /\ IF LoopTestLeaves(w)
       THEN wpc' = [wpc EXCEPT ![w] = "done"]
       ELSE /\ IncsBegun < MaxIncs
            /\ wpc' = [wpc EXCEPT ![w] = "call"]
    /\ UNCHANGED <<stop_evt, counts, lock, mpc, wKey, wLocal, applied, last_counts, snap,
                   cfgAnalytics, cause>>

\* the try block of the loop body: the database calls return, and the worker
\* goes on to counter.inc(<its kind>); or PyMongoError, and it goes on to
\* counter.inc("errors"); or, for reads and writes, StopIteration of .next()
\* on an empty collection, followed by time.sleep(0.05)
WCall(w) ==
    /\ wpc[w] = "call"
    /\ \/ /\ wKey' = [wKey EXCEPT ![w] = KindOf(w)]
          /\ wpc' = [wpc EXCEPT ![w] = "inc"]
       \/ /\ wKey' = [wKey EXCEPT ![w] = "errors"]
          /\ wpc' = [wpc EXCEPT ![w] = "inc"]
       \/ /\ KindOf(w) # "analytics"
          /\ wpc' = [wpc EXCEPT ![w] = "test"]
          /\ UNCHANGED wKey
    /\ UNCHANGED <<stop_evt, counts, lock, mpc, wLocal, applied, last_counts, snap,
                   cfgAnalytics, cause>>

\* Counter.inc: with self.lock, and self.counts.get(key, 0)
WInc(w) ==
    /\ wpc[w] = "inc"
    /\ Acquire(w)
    /\ lock' = w
    /\ wLocal' = [wLocal EXCEPT ![w] = counts[wKey[w]]]
    /\ wpc' = [wpc EXCEPT ![w] = "write"]
    /\ UNCHANGED <<stop_evt, counts, mpc, wKey, applied, last_counts, snap,
                   cfgAnalytics, cause>>

\* Counter.inc: self.counts[key] = ... + n, and the lock is released; the
\* time.sleep(0.05) that ends the body of worker_analytics
WWrite(w) ==
    /\ wpc[w] = "write"
    /\ counts' = [counts EXCEPT ![wKey[w]] = wLocal[w] + 1]
    /\ applied' = [applied EXCEPT ![wKey[w]] = @ + 1]
    /\ lock' = NoHolder
    /\ wKey' = [wKey EXCEPT ![w] = KindOf(w)]
    /\ wLocal' = [wLocal EXCEPT ![w] = 0]
    /\ wpc' = [wpc EXCEPT ![w] = "test"]
    /\ UNCHANGED <<stop_evt, mpc, last_counts, snap, cfgAnalytics, cause>>

WorkerSetup == (\E w \in Workers : WSetup(w)) /\ UNCHANGED toolOthers
WorkerTest == (\E w \in Workers : WTest(w)) /\ UNCHANGED toolOthers
WorkerCall == (\E w \in Workers : WCall(w)) /\ UNCHANGED toolOthers
WorkerInc == (\E w \in Workers : WInc(w)) /\ UNCHANGED toolOthers
WorkerWrite == (\E w \in Workers : WWrite(w)) /\ UNCHANGED toolOthers

\* main: last_counts = counter.snapshot()
MainFirst ==
    /\ mpc = "first"
    /\ Acquire(Main)
    /\ snap' = counts
    /\ last_counts' = counts
    /\ mpc' = "loop"
    /\ UNCHANGED <<stop_evt, counts, lock, wpc, wKey, wLocal, applied, cfgAnalytics, cause>>
    /\ UNCHANGED toolOthers

\* main: while time.time() - start < args.duration
MainLoop ==
    /\ mpc = "loop"
    /\ \/ /\ mpc' = "sleep"
          /\ UNCHANGED cause
       \/ /\ mpc' = "finally"
          /\ cause' = "elapsed"
    /\ UNCHANGED <<stop_evt, counts, lock, wpc, wKey, wLocal, applied, last_counts, snap,
                   cfgAnalytics>>
    /\ UNCHANGED toolOthers

\* main: time.sleep(2), which KeyboardInterrupt may end
MainSleep ==
    /\ mpc = "sleep"
    /\ \/ mpc' = "snap" /\ UNCHANGED cause
       \/ mpc' = "finally" /\ cause' = "KeyboardInterrupt"
    /\ UNCHANGED <<stop_evt, counts, lock, wpc, wKey, wLocal, applied, last_counts, snap,
                   cfgAnalytics>>
    /\ UNCHANGED toolOthers

\* main: snap = counter.snapshot()
MainSnapshot ==
    /\ mpc = "snap"
    /\ Acquire(Main)
    /\ snap' = counts
    /\ mpc' = "report"
    /\ UNCHANGED <<stop_evt, counts, lock, wpc, wKey, wLocal, applied, last_counts,
                   cfgAnalytics, cause>>
    /\ UNCHANGED toolOthers

\* main: the rates are printed and last_counts = snap, or KeyboardInterrupt
MainReport ==
    /\ mpc = "report"
    /\ \/ last_counts' = snap /\ mpc' = "loop" /\ UNCHANGED cause
       \/ mpc' = "finally" /\ cause' = "KeyboardInterrupt" /\ UNCHANGED last_counts
    /\ UNCHANGED <<stop_evt, counts, lock, wpc, wKey, wLocal, applied, snap,
                   cfgAnalytics>>
    /\ UNCHANGED toolOthers

\* main, finally: stop_evt.set()
MainFinally ==
    /\ mpc = "finally"
    /\ stop_evt' = TRUE
    /\ mpc' = "join"
    /\ UNCHANGED <<counts, lock, wpc, wKey, wLocal, applied, last_counts, snap,
                   cfgAnalytics, cause>>
    /\ UNCHANGED toolOthers

\* main, finally: t.join(timeout=3) for every thread, each of which returns
\* when the thread has ended or after 3 seconds; total = counter.snapshot()
MainTotals ==
    /\ mpc = "join"
    /\ Acquire(Main)
    /\ snap' = counts
    /\ mpc' = "done"
    /\ UNCHANGED <<stop_evt, counts, lock, wpc, wKey, wLocal, applied, last_counts,
                   cfgAnalytics, cause>>
    /\ UNCHANGED toolOthers

ToolNext ==
    \/ WorkerSetup \/ WorkerTest \/ WorkerCall \/ WorkerInc \/ WorkerWrite
    \/ MainFirst \/ MainLoop \/ MainSleep \/ MainSnapshot \/ MainReport
    \/ MainFinally \/ MainTotals

\* what main does, and what worker w does
MainStep ==
    \/ MainFirst \/ MainLoop \/ MainSleep \/ MainSnapshot \/ MainReport
    \/ MainFinally \/ MainTotals
WorkerStep(w) ==
    (WSetup(w) \/ WTest(w) \/ WCall(w) \/ WInc(w) \/ WWrite(w)) /\ UNCHANGED toolOthers

\* every thread that can run is run
ToolFairness == WF_vars(MainStep) /\ \A w \in Workers : WF_vars(WorkerStep(w))

\* ====================================================================
\* Specifications
\* ====================================================================
\* cmd_install not running
InstIdle ==
    /\ ipc = "off"
    /\ inode = 1
    /\ hasMongod = [n \in Nodes |-> FALSE]
    /\ probes = [n \in Nodes |-> 0]
    /\ probeOut = [n \in Nodes |-> NoOutput]
    /\ codenameCmds = [n \in Nodes |-> 0]
    /\ aptCmds = [n \in Nodes |-> 0]
    /\ clients = {}
    /\ keyBytes = NoKey
    /\ keyGens = 0
    /\ tmpKey = [n \in Nodes |-> NoKey]
    /\ keyFile = [n \in Nodes |-> NoKey]
    /\ tmpConf = [n \in Nodes |-> NoConf]
    /\ confFile = [n \in Nodes |-> NoConf]
    /\ restarts = [n \in Nodes |-> 0]
    /\ attempts = [n \in Nodes |-> 0]
    /\ waitOk = [n \in Nodes |-> FALSE]
    /\ raisedAt = ""
    /\ printed = FALSE

\* no command of the cluster manager running
AdmIdle ==
    /\ role = [n \in Nodes |-> "secondary"]
    /\ apc = "off"
    /\ acmd = ""
    /\ runs = 0
    /\ aResult = ""
    /\ aErr = ""
    /\ rsInitiated = FALSE
    /\ authOn = [n \in Nodes |-> FALSE]
    /\ aTmpConf = [n \in Nodes |-> NoConf]
    /\ aConf = [n \in Nodes |-> NoConf]
    /\ adminUser = FALSE
    /\ adminVersion = 0
    /\ versionBefore = 0
    /\ answer = <<"none", NoMsg>>
    /\ statusOk = FALSE
    /\ initiateSent = 0
    /\ sentToInitiated = 0
    /\ polls = 0
    /\ primarySeen = FALSE
    /\ eaClients = {}
    /\ eaNode = 1
    /\ rewritten = [n \in Nodes |-> FALSE]
    /\ restarted = [n \in Nodes |-> FALSE]

\* the dashboard not serving
SshIdle ==
    /\ sConfig = [ok |-> FALSE, nodes |-> {}]
    /\ sSeen = [ok |-> FALSE, nodes |-> {}]
    /\ sBody = NoBody
    /\ sStatus = 0
    /\ sOpened = FALSE
    /\ sExec = {}

\* MongoDBLoadTester not running
LoadIdle ==
    /\ lRole = [n \in Nodes |-> "secondary"]
    /\ lPc = "off"
    /\ lNode = 1
    /\ lClients = {}
    /\ lIssued = {}

\* generate_data not running
GenIdle ==
    /\ gPc = "off"
    /\ gCount = 0
    /\ gEmp = 0
    /\ gInitial = << >>
    /\ gCompanies = << >>
    /\ gExisting = 0
    /\ gIdx = 0
    /\ gEmployees = 0

\* MongoLoadTester not running
RunIdle ==
    /\ rPc = "off"
    /\ rInitial = [nm \in RNames |-> Coll(FALSE, 0, 0, 0)]
    /\ rDb = [nm \in RNames |-> Coll(FALSE, 0, 0, 0)]
    /\ rOpsLeft = [t \in Threads |-> 0]
    /\ rLast = <<"", << >>, "">>
    /\ rClean = 1

\* the dashboard not monitoring
MonIdle ==
    /\ monitoring_active = FALSE
    /\ monitoring_thread = NoThread
    /\ replication_lag = << >>
    /\ alerts = << >>
    /\ measured = 0
    /\ alerted = 0
    /\ updates = 0
    /\ iterations = 0
    /\ tpc = [t \in LoopThreads |-> "unborn"]
    /\ hpc = [h \in Handlers |-> "off"]
    /\ hThread = [h \in Handlers |-> NoThread]
    /\ hOverlap = [h \in Handlers |-> FALSE]
    /\ lastStop = [returned |-> FALSE, clean |-> FALSE, active |-> FALSE, live |-> {}]
    /\ lag_data = NoLagData
    /\ node_status = NoNodeStatus
    /\ new_alerts = << >>

\* The dashboard after some time of monitoring: one thread runs
\* _monitoring_loop, the lists hold the last measurements and alerts.
LoopInit ==
    /\ monitoring_active = TRUE
    /\ monitoring_thread = 1
    /\ measured \in {LagKeep - 1, LagKeep + 50}
    /\ replication_lag = IF measured > LagKeep THEN Ordinals(measured - LagKeep, LagKeep)
                                               ELSE Ordinals(0, measured)
    /\ alerted \in {0, AlertKeep - 2}
    /\ alerts = IF alerted > AlertKeep THEN Ordinals(alerted - AlertKeep, AlertKeep)
                                      ELSE Ordinals(0, alerted)
    /\ updates = measured
    /\ iterations = 0
    /\ tpc = [t \in LoopThreads |-> IF t = 1 THEN "check" ELSE "unborn"]
    /\ hpc = [h \in Handlers |-> "idle"]
    /\ hThread = [h \in Handlers |-> NoThread]
    /\ hOverlap = [h \in Handlers |-> FALSE]
    /\ lastStop = [returned |-> FALSE, clean |-> FALSE, active |-> FALSE, live |-> {}]
    /\ lag_data = NoLagData
    /\ node_status = NoNodeStatus
    /\ new_alerts = << >>

\* The monitoring thread about to call _check_alerts(lag_data, node_status).
CheckInit ==
    /\ monitoring_active = TRUE
    /\ monitoring_thread = 1
    /\ measured = 1
    /\ replication_lag = Ordinals(0, 1)
    /\ alerted \in {0, AlertKeep - 1}
    /\ alerts = Ordinals(0, alerted)
    /\ updates = 1
    /\ iterations = 1
    /\ tpc = [t \in LoopThreads |-> IF t = 1 THEN "alerts" ELSE "unborn"]
    /\ hpc = [h \in Handlers |-> "idle"]
    /\ hThread = [h \in Handlers |-> NoThread]
    /\ hOverlap = [h \in Handlers |-> FALSE]
    /\ lastStop = [returned |-> FALSE, clean |-> FALSE, active |-> FALSE, live |-> {}]
    /\ lag_data \in LagDatas
    /\ node_status \in NodeStatuses
    /\ new_alerts = << >>

\* execute_query not called
QryIdle ==
    /\ qClients = << >>
    /\ qQuery = << >>
    /\ qNodeIp = << >>
    /\ qResp = << >>
    /\ qCalls = 0

\* Locust not running
LocIdle ==
    /\ weights = [c \in UserClasses |-> 0]
    /\ spawned = [c \in UserClasses |-> 0]

\* tools/load_test.py not running
ToolIdle ==
    /\ stop_evt = FALSE
    /\ counts = << >>
    /\ lock = NoHolder
    /\ mpc = "off"
    /\ wpc = << >>
    /\ wKey = << >>
    /\ wLocal = << >>
    /\ applied = << >>
    /\ last_counts = << >>
    /\ snap = << >>
    /\ cfgAnalytics = FALSE
    /\ cause = "none"

InstallInit == InstInit /\ AdmIdle /\ SshIdle /\ LoadIdle /\ GenIdle /\ RunIdle /\ MonIdle /\ QryIdle /\ LocIdle /\ ToolIdle
AdminInit == AdmInit /\ InstIdle /\ SshIdle /\ LoadIdle /\ GenIdle /\ RunIdle /\ MonIdle /\ QryIdle /\ LocIdle /\ ToolIdle
SshConsoleInit == SshInit /\ InstIdle /\ AdmIdle /\ LoadIdle /\ GenIdle /\ RunIdle /\ MonIdle /\ QryIdle /\ LocIdle /\ ToolIdle
LoadTestInit == LoadInit /\ InstIdle /\ AdmIdle /\ SshIdle /\ GenIdle /\ RunIdle /\ MonIdle /\ QryIdle /\ LocIdle /\ ToolIdle
GenerateInit == GenInit /\ InstIdle /\ AdmIdle /\ SshIdle /\ LoadIdle /\ RunIdle /\ MonIdle /\ QryIdle /\ LocIdle /\ ToolIdle
RunnerInit == RunInit /\ InstIdle /\ AdmIdle /\ SshIdle /\ LoadIdle /\ GenIdle /\ MonIdle /\ QryIdle /\ LocIdle /\ ToolIdle
MonitorInit == MonInit /\ InstIdle /\ AdmIdle /\ SshIdle /\ LoadIdle /\ GenIdle /\ RunIdle /\ QryIdle /\ LocIdle /\ ToolIdle
MonitorLoopInit == LoopInit /\ InstIdle /\ AdmIdle /\ SshIdle /\ LoadIdle /\ GenIdle /\ RunIdle /\ QryIdle /\ LocIdle /\ ToolIdle
CheckAlertsInit == CheckInit /\ InstIdle /\ AdmIdle /\ SshIdle /\ LoadIdle /\ GenIdle /\ RunIdle /\ QryIdle /\ LocIdle /\ ToolIdle
LocustInit == LocInit /\ InstIdle /\ AdmIdle /\ SshIdle /\ LoadIdle /\ GenIdle /\ RunIdle /\ MonIdle /\ QryIdle /\ ToolIdle
LoadToolInit == ToolInit /\ InstIdle /\ AdmIdle /\ SshIdle /\ LoadIdle /\ GenIdle /\ RunIdle /\ MonIdle /\ QryIdle /\ LocIdle
QueryInit == QryInit /\ InstIdle /\ AdmIdle /\ SshIdle /\ LoadIdle /\ GenIdle /\ RunIdle /\ MonIdle /\ LocIdle /\ ToolIdle

SpecInstall == InstallInit /\ [][InstNext]_vars
SpecAdmin == AdminInit /\ [][AdmNext]_vars
SpecSsh == SshConsoleInit /\ [][SshNext]_vars
SpecLoad == LoadTestInit /\ [][LoadNext]_vars
SpecGen == GenerateInit /\ [][GenNext]_vars
SpecRunner == RunnerInit /\ [][RunNext]_vars
SpecMonitor == MonitorInit /\ [][MonNext]_vars
SpecLoop == MonitorLoopInit /\ [][LoopNext]_vars
SpecAlerts == CheckAlertsInit /\ [][AlertsNext]_vars
SpecLocust == LocustInit /\ [][LocNext]_vars
SpecQuery == QueryInit /\ [][QryNext]_vars
SpecTool == LoadToolInit /\ [][ToolNext]_vars
SpecToolFair == LoadToolInit /\ [][ToolNext]_vars /\ ToolFairness

\* ====================================================================
\* Properties
\* ====================================================================

\* MongoDB has been ensured on node n: probed once, and either the probe
\* printed a version or the install command was issued.
Ensured(n) ==
    /\ probes[n] = 1
    /\ \/ aptCmds[n] = 1
       \/ codenameCmds[n] = 0 /\ hasMongod[n]

\* Node n has been touched by the configuration loop of cmd_install.
Configured(n) == tmpConf[n] # NoConf \/ confFile[n] # NoConf \/ restarts[n] > 0

\* C1 (as claimed): init-replica is idempotent: replSetInitiate is never sent
\* to a replica set that is already initiated, it is sent at most once per
\* run, and only when replSetGetStatus did not answer ok == 1.
C1_InitReplicaIdempotent ==
    /\ sentToInitiated = 0
    /\ initiateSent <= 1
    /\ initiateSent = 1 => ~statusOk

\* C2: cmd_install runs in three phases: the keyfile is generated once and
\* only after MongoDB was ensured on every node; every node that received a
\* keyfile holds the same generated bytes; no node is configured or
\* restarted before every node holds that keyfile.
C2_InstallPhases ==
    /\ keyGens <= 1
    /\ keyGens = 1 => keyBytes \in Keys /\ \A n \in Nodes : Ensured(n)
    /\ \A n \in Nodes : tmpKey[n] # NoKey => tmpKey[n] = keyBytes
    /\ \A n \in Nodes : keyFile[n] \notin {NoKey, OldKey} => keyFile[n] = keyBytes
    /\ (\E n \in Nodes : Configured(n)) =>
           /\ keyGens = 1
           /\ \A m \in Nodes : keyFile[m] = keyBytes /\ keyFile[m] \in Keys

\* C2 witness: the first node is configured and restarted, the last is not yet.
C2_Witness ==
    /\ confFile[1] # NoConf
    /\ restarts[1] = 1
    /\ ~Configured(NumNodes)
    /\ \A m \in Nodes : keyFile[m] = keyBytes

\* C3: wait_for_mongo makes at most RetryLimit attempts per node, makes no
\* attempt after one succeeded, raises exactly when the RetryLimit-th attempt
\* failed, and the final message is printed only if it returned for every node.
C3_WaitBoundedRetry ==
    /\ \A n \in Nodes : attempts[n] <= RetryLimit
    /\ \A n \in Nodes : waitOk[n] => attempts[n] >= 1
    /\ \A n \in Nodes : (ipc = "wait" /\ inode = n) => ~waitOk[n] /\ attempts[n] < RetryLimit
    /\ raisedAt = "wait" => attempts[inode] = RetryLimit /\ ~waitOk[inode]
    /\ \A n \in Nodes : (attempts[n] = RetryLimit /\ ~waitOk[n]) => raisedAt = "wait"
    /\ printed => \A n \in Nodes : waitOk[n]

\* C3 witness: the message is printed after the first node answered only at
\* the last allowed attempt.
C3_Witness ==
    /\ printed
    /\ attempts[1] = RetryLimit
    /\ \A n \in Nodes : waitOk[n]

\* C5: in enable-auth a node is restarted only after its mongod.conf was
\* rewritten in the same run, the rewritten file carries the keyFile line and
\* "authorization: enabled", and when cmd_enable_auth returns every node has
\* been rewritten and restarted.
C5_EnableAuthAllNodes ==
    acmd = "enable-auth" =>
        /\ \A n \in Nodes : restarted[n] => rewritten[n] /\ authOn[n]
        /\ \A n \in Nodes : rewritten[n] =>
               HasLine(aConf[n], AuthLine) /\ HasLine(aConf[n], KeyFileLine)
        /\ aResult = "returned" => \A n \in Nodes : rewritten[n] /\ restarted[n]

\* C5 witness: cmd_enable_auth returned.
C5_Witness ==
    /\ acmd = "enable-auth"
    /\ aResult = "returned"
    /\ \A n \in Nodes : restarted[n] /\ HasLine(aConf[n], AuthLine)

\* The OperationFailure messages that say "already exists".
SaysAlreadyExists == {MsgUserExists, MsgUserExistsCaps}

\* C6: when add_user fails with an OperationFailure saying "already exists",
\* create_cluster_admin returns normally and the admin user is unchanged;
\* with any other OperationFailure it raises that OperationFailure.
C6_CreateAdminIdempotent ==
    (acmd = "create-admin" /\ aResult # "" /\ answer[1] = "opfail") =>
        IF answer[2] \in SaysAlreadyExists
        THEN aResult = "returned" /\ adminVersion = versionBefore
        ELSE aResult = "raised" /\ aErr = "OperationFailure" /\ adminVersion = versionBefore

\* C6 witness: create-admin returned on a cluster that already had the user.
C6_Witness ==
    /\ acmd = "create-admin"
    /\ aResult = "returned"
    /\ adminUser
    /\ answer = <<"opfail", MsgUserExists>>
    /\ adminVersion = versionBefore

\* C4 (as claimed): every command POST /api/ssh executes is a value of
\* ALLOWED_COMMANDS; a request whose cmd is not a key of ALLOWED_COMMANDS is
\* answered 400 and opens no SSH connection; a request with an allowed cmd
\* whose node is not in the (readable) configuration is answered 404 and
\* opens no SSH connection.
C4_SshAllowListed ==
    /\ sExec \subseteq {ALLOWED_COMMANDS[k] : k \in AllowedKeys}
    /\ (sBody.dict /\ ~(sBody.cmd.kind = "str" /\ sBody.cmd.val \in AllowedKeys)) =>
           sStatus = 400 /\ ~sOpened
    /\ (sBody.dict /\ sBody.cmd.kind = "str" /\ sBody.cmd.val \in AllowedKeys
           /\ sSeen.ok /\ ~(sBody.node.kind = "str" /\ sBody.node.val \in sSeen.nodes)) =>
           sStatus = 404 /\ ~sOpened

\* C7 (as claimed): every write a write worker issued went to a node whose
\* role is primary.
C7_WritesToPrimary ==
    \A op \in lIssued : op[1] = "write" => lRole[op[2]] = "primary"

\* C7 (amended): every write went to a connected node, and to a node whose
\* role is primary whenever a node with role primary is connected.
C7_WritesToPrimaryIfConnected ==
    \A op \in lIssued : op[1] = "write" =>
        /\ op[2] \in lClients
        /\ (\E n \in lClients : lRole[n] = "primary") => lRole[op[2]] = "primary"

\* C7 witness: a write reached the primary although an earlier, non-primary
\* node is connected as well.
C7_Witness ==
    \E op \in lIssued :
        /\ op[1] = "write"
        /\ lRole[op[2]] = "primary"
        /\ \E m \in lClients : m < op[2] /\ lRole[m] # "primary"

\* C8: every read and every analytics operation went to a connected node,
\* and to a secondary whenever a secondary is connected.
C8_ReadsPreferSecondaries ==
    \A op \in lIssued : op[1] \in {"read", "analytics"} =>
        /\ op[2] \in lClients
        /\ (\E n \in lClients : lRole[n] = "secondary") => lRole[op[2]] = "secondary"

\* C8 witness: a read and an analytics operation reached a secondary while a
\* non-secondary node is connected too.
C8_Witness ==
    /\ \E m \in lClients : lRole[m] # "secondary"
    /\ \E op \in lIssued : op[1] = "read" /\ lRole[op[2]] = "secondary"
    /\ \E op \in lIssued : op[1] = "analytics" /\ lRole[op[2]] = "secondary"

Max(a, b) == IF a >= b THEN a ELSE b

\* C9: generate_data leaves the companies it found untouched, inserts
\* companies only for indexes at or above their number k, never more than
\* max(0, companies_count - k), and exactly that many when it returns.
C9_ResumeSafe ==
    LET k == Len(gInitial)
        added == Len(gCompanies) - k
    IN  /\ added >= 0
        /\ SubSeq(gCompanies, 1, k) = gInitial
        /\ \A i \in (k + 1)..Len(gCompanies) :
               gCompanies[i].origin = "new" /\ gCompanies[i].no > k
        /\ added <= Max(0, gCount - k)
        /\ gPc = "done" => added = Max(0, gCount - k)

\* C9 witness: a run that found one company and was asked for more returned.
C9_Witness ==
    /\ gPc = "done"
    /\ Len(gInitial) = 1
    /\ gCount > 1
    /\ Len(gCompanies) = gCount

\* C10: the collections employees, attendance, payroll, leaves and documents
\* stay as they were before the load test, and every write went through the
\* 'replica_set' client to a collection named <collection>_test.
C10_WritesOnlyTestCollections ==
    /\ \A c \in TestCollections : rDb[<<c>>] = rInitial[<<c>>]
    /\ rLast[3] \in WriteOps \cup {"delete_many"} =>
           /\ rLast[1] = "replica_set"
           /\ \E c \in TestCollections : rLast[2] = <<c, "_test">>

\* C10 witness: insert_many filled employees_test while employees kept its
\* document.
C10_Witness ==
    /\ rLast = <<"replica_set", <<"employees", "_test">>, "insert_many">>
    /\ rDb[<<"employees", "_test">>].fresh >= 2
    /\ rInitial[<<"employees">>].plain = 1
    /\ rDb[<<"employees">>] = rInitial[<<"employees">>]

\* C11: when cleanup_test_data has gone through every <collection>_test
\* collection without an exception, none of them holds a document tagged
\* metadata.test_type == 'load_test' (so none that perform_write_operation
\* inserted), and at every moment each of them holds exactly the untagged
\* documents it held before the load test.
C11_CleanupRemovesTestData ==
    /\ \A c \in TestCollections : rDb[TestName(c)].plain = rInitial[TestName(c)].plain
    /\ rPc = "cleaned" => \A c \in TestCollections : Tagged(rDb[TestName(c)]) = 0

\* C11 witness: cleanup_test_data completed after perform_write_operation
\* had created documents_test, which is now empty, by its delete_many.
C11_Witness ==
    /\ rPc = "cleaned"
    /\ ~rInitial[<<"documents", "_test">>].exists
    /\ rDb[<<"documents", "_test">>] = Coll(TRUE, 0, 0, 0)
    /\ rLast = <<"replica_set", <<"documents", "_test">>, "delete_many">>

\* C12 (as claimed): whenever a worker thread is about to choose an operation
\* type, the choice can fall on the analytics branch, that is, the step that
\* calls perform_analytics_operation is possible.
C12_AnalyticsSelectable ==
    (rPc = "run" /\ \E t \in Threads : rOpsLeft[t] > 0) => ENABLED RunAnalytics

\* C13 (as claimed): when stop_monitoring returned and no start_monitoring
\* ran while it ran, then at that moment monitoring_active was False and no
\* thread was running _monitoring_loop.
C13_StopMonitoringStops ==
    (lastStop.returned /\ lastStop.clean) => (~lastStop.active /\ lastStop.live = {})

\* C14 (as claimed): Locust selects CRUDUser with weight 4 for every weight 1
\* of AnalyticsUser, the 80% / 20% split.
C14_LocustWeights == weights["CRUDUser"] = 4 * weights["AnalyticsUser"]

PrintsVersion(r) == Contains(r.out, <<"db", "version">>) \/ Contains(r.err, <<"db", "version">>)

\* C16: ensure_mongodb_installed probes a node once; when the probe printed
\* a version, neither the codename command nor the repository and apt-get
\* command is ever issued on that node; those commands are issued only
\* after a probe that printed no version.
C16_NoInstallWhenPresent ==
    \A n \in Nodes :
        /\ probes[n] <= 1
        /\ codenameCmds[n] <= 1 /\ aptCmds[n] <= 1
        /\ (probes[n] = 0) = (probeOut[n] = NoOutput)
        /\ PrintsVersion(probeOut[n]) => codenameCmds[n] = 0 /\ aptCmds[n] = 0
        /\ (codenameCmds[n] > 0 \/ aptCmds[n] > 0) =>
               probes[n] = 1 /\ ~PrintsVersion(probeOut[n])

\* C16 witness: the first node printed a version and got no install command,
\* the last printed none and got them, and cmd_install went on to the keyfile.
C16_Witness ==
    /\ keyGens = 1
    /\ PrintsVersion(probeOut[1])
    /\ aptCmds[1] = 0 /\ codenameCmds[1] = 0
    /\ probeOut[NumNodes] = ProbeOutput(FALSE)
    /\ aptCmds[NumNodes] = 1 /\ codenameCmds[NumNodes] = 1

\* The number of "security:" lines of a configuration.
SecuritySections(conf) == Cardinality({k \in 1..Len(conf) : conf[k] = <<"security:">>})

\* Every result of build_mongod_conf has at most one "security:" line, the
\* authorization line iff authorization, the keyFile line iff key_file_path.
C17_ConfOfEveryInput ==
    \A kp \in {NoPath, KeyFilePath}, a \in BOOLEAN :
        LET conf == build_mongod_conf(DbPath, LogPath, ReplSetName, kp, a)
        IN  /\ SecuritySections(conf) <= 1
            /\ HasLine(conf, AuthLine) <=> a
            /\ HasLine(conf, <<"  keyFile: ", kp>>) <=> (kp # NoPath)

\* What install wrote has no authorization line, what enable-auth wrote has it.
C17_ConfOfEveryCommand ==
    \A n \in Nodes :
        /\ ~HasLine(tmpConf[n], AuthLine) /\ ~HasLine(confFile[n], AuthLine)
        /\ aTmpConf[n] # NoConf => HasLine(aTmpConf[n], AuthLine)
        /\ rewritten[n] => HasLine(aConf[n], AuthLine)
        /\ SecuritySections(aConf[n]) <= 1 /\ SecuritySections(confFile[n]) <= 1

\* A step that adds the authorization line to a node's configuration is the
\* mv of enable_authorization_on_all_nodes on that node.
C17_GainedByEnableAuth ==
    \A n \in Nodes :
        (~HasLine(aConf[n], AuthLine) /\ HasLine(aConf'[n], AuthLine)) =>
            (acmd = "enable-auth" /\ apc = "ea_mv" /\ eaNode = n)

\* C17: build_mongod_conf emits at most one "security:" section, the
\* authorization line iff authorization is True and the keyFile line iff
\* key_file_path is non-empty; the configuration written by install never
\* has the authorization line, the one written by enable-auth always has
\* it, and a node's configuration gains the line only through enable-auth.
C17_AuthorizationLine ==
    /\ [](C17_ConfOfEveryCommand /\ C17_ConfOfEveryInput)
    /\ [][C17_GainedByEnableAuth]_vars

\* C17 witness: enable-auth has rewritten the first node's configuration,
\* which now has the authorization line, while the last node still has the
\* configuration of install, with the keyFile line and without authorization.
C17_Witness ==
    /\ acmd = "enable-auth"
    /\ rewritten[1] /\ HasLine(aConf[1], AuthLine) /\ HasLine(aConf[1], KeyFileLine)
    /\ ~rewritten[NumNodes]
    /\ ~HasLine(aConf[NumNodes], AuthLine) /\ HasLine(aConf[NumNodes], KeyFileLine)

\* The last n of the entries numbered 1..total, in arrival order.
MostRecent(total, n) ==
    LET k == IF total < n THEN total ELSE n
    IN  [i \in 1..k |-> total - k + i]

AlertsFor(type, n) ==
    {k \in 1..Len(new_alerts) : new_alerts[k].type = type /\ new_alerts[k].node = n}

\* the lag_ms measured for node n, if lag_data has one
HasLagMs(n) == ~lag_data.error /\ lag_data.info[n].kind = "lag"

\* C19: _check_alerts builds a replication_lag alert for a node iff its
\* measured lag_ms is greater than 1000, of severity warning when lag_ms is
\* below 5000 and critical otherwise, and one critical node_status alert for
\* every node whose status is not "connected"; a node with lag at most 1000
\* and status connected gets no alert.
C19_AlertThresholds ==
    tpc[1] = "sleep" =>
        \A n \in Nodes :
            /\ Cardinality(AlertsFor("replication_lag", n)) =
                   (IF HasLagMs(n) /\ lag_data.info[n].lag_ms > 1000 THEN 1 ELSE 0)
            /\ \A k \in AlertsFor("replication_lag", n) :
                   new_alerts[k].severity =
                       (IF lag_data.info[n].lag_ms < 5000 THEN "warning" ELSE "critical")
            /\ Cardinality(AlertsFor("node_status", n)) =
                   (IF node_status[n] # "connected" THEN 1 ELSE 0)
            /\ \A k \in AlertsFor("node_status", n) : new_alerts[k].severity = "critical"
            /\ Cardinality(AlertsFor("replication_lag", n) \cup AlertsFor("node_status", n)) =
                   Cardinality({k \in 1..Len(new_alerts) : new_alerts[k].node = n})

\* C19 witness: one call built a warning for a lag below 5000, a critical
\* alert for a lag of 5000 and a node_status alert, and none for the
\* connected first node's status.
C19_Witness ==
    /\ tpc[1] = "sleep"
    /\ HasLagMs(1) /\ lag_data.info[1].lag_ms = 4000
    /\ HasLagMs(NumNodes) /\ lag_data.info[NumNodes].lag_ms = 5000
    /\ node_status[1] = "connected" /\ node_status[NumNodes] = "disconnected"
    /\ Len(new_alerts) = 3
    /\ new_alerts[1].severity = "warning" /\ new_alerts[2].severity = "critical"
    /\ new_alerts[3].type = "node_status"

\* C20: execute_query never runs a query on an unusable target: a query that
\* does not start with "db." (once stripped, as the code tests it) returns an
\* error and nothing is evaluated; with node_ip absent or unknown the query
\* runs on the connected primary, and {"error": "No available nodes"} is
\* returned when there is none; when the chosen node is not connected an
\* error is returned and nothing is evaluated; no exception escapes the
\* function.
C20_ExecuteQueryGuarded ==
    qResp # NoResp =>
        /\ ~startswith(strip(qQuery), DbPrefix) =>
               (qResp.kind = "error" /\ ~qResp.evaluated)
        /\ ~Known(qNodeIp) =>
               IF PrimaryIps = {}
               THEN qResp = ErrorResp("No available nodes")
               ELSE qResp.evaluated => qResp.on = dashboard_get_primary_client
        /\ (Known(qNodeIp) /\ qClients[qNodeIp].status # "connected") =>
               (qResp.kind = "error" /\ ~qResp.evaluated)
        /\ qResp.evaluated => qClients[qResp.on].status = "connected"
        /\ qResp.kind \in {"error", "success"}

\* C21: at most one thread is running _monitoring_loop at any time, under
\* every interleaving of start and stop requests to /api/monitoring.
C21_OneMonitoringLoop == Cardinality(Live) <= 1

\* The value of every key is the total of the increments applied to it, and
\* one thread at most is inside Counter.inc.
C22_NoLostUpdate ==
    /\ \A k \in CounterKeys : counts[k] = applied[k]
    /\ Cardinality({w \in Workers : wpc[w] = "write"}) <= 1
    /\ \A k \in CounterKeys : last_counts[k] <= snap[k] /\ snap[k] <= counts[k]

\* A step in which main takes a snapshot is taken with the lock free, copies
\* the counts as they are, and gives no key less than the snapshot before.
C22_SnapshotStep ==
    (mpc \in {"first", "snap", "join"} /\ mpc' # mpc /\ mpc' # "finally") =>
        /\ lock = NoHolder
        /\ snap' = counts /\ snap' = applied
        /\ \A k \in CounterKeys : snap'[k] >= snap[k]

\* C22: Counter loses no update: under any interleaving of inc calls of the
\* workers and snapshot calls of main, the value of each key equals the total
\* of the increments applied to it so far, every snapshot is a consistent
\* copy taken under the lock, and successive snapshots never decrease.
C22_CounterConsistent == []C22_NoLostUpdate /\ [][C22_SnapshotStep]_vars

\* C22 witness: one key was incremented twice, main took a snapshot between
\* the two increments and has not yet taken the next.
C22_Witness ==
    /\ counts["errors"] = 2 /\ applied["errors"] = 2
    /\ snap["errors"] = 1 /\ last_counts["errors"] = 0
    /\ \A w \in Workers : wpc[w] # "setup"

AllWorkersDone == \A w \in Workers : wpc[w] = "done"

\* main is past the reporting loop only with stop_evt set, whatever ended the
\* loop; an analytics worker without an analytics node never enters its loop
\* and nothing is counted for it.
C23_StopSignalled ==
    /\ mpc \in {"join", "done"} => (stop_evt /\ cause \in {"elapsed", "KeyboardInterrupt"})
    /\ cause # "none" => mpc \in {"finally", "join", "done"}
    /\ \A w \in Workers :
           (KindOf(w) = "analytics" /\ ~cfgAnalytics) =>
               (wpc[w] \in {"setup", "done"} /\ counts["analytics"] = 0)

\* A worker that tests its loop condition with stop_evt set leaves the loop.
C23_LeavesAtNextTest ==
    \A w \in Workers :
        (stop_evt /\ wpc[w] = "test" /\ wpc'[w] # "test") => wpc'[w] = "done"

\* C23: main sets stop_evt on every way out of the reporting loop (duration
\* elapsed or KeyboardInterrupt); once it is set every worker leaves its loop
\* at its next loop test, so all workers eventually terminate, every database
\* call returning; an analytics worker started without an analytics node
\* returns at once and counts nothing.
C23_WorkersStop ==
    /\ []C23_StopSignalled
    /\ [][C23_LeavesAtNextTest]_vars
    /\ (stop_evt ~> AllWorkersDone)

\* C23 witness: KeyboardInterrupt ended the reporting loop, stop_evt is set,
\* every worker has ended, a read was counted before, and the analytics
\* worker, without an analytics node, counted nothing.
C23_Witness ==
    /\ cause = "KeyboardInterrupt"
    /\ stop_evt
    /\ AllWorkersDone
    /\ ~cfgAnalytics
    /\ counts["read"] >= 1 /\ counts["analytics"] = 0

====
